---- MODULE Spec2Model ----
(***************************************************************************)
(* A model of the flatten -> upsert -> validate path of the papers         *)
(* pipeline (src/pipeline.py, src/load_papers_from_json.py,                *)
(* src/data_quality_tests.py): process_paper, the normalization loop and   *)
(* the chunked upsert of insert_papers_with_deduplication against the      *)
(* papers table, the data quality tests run from the pipeline and          *)
(* standalone, the steps of PapersDataPipeline.run, the scoped blocks of   *)
(* src/db_connection.py and the pages of fetch_recent_works.               *)
(*                                                                         *)
(* Python values are records [t, v]: t is the value's kind ("absent": the  *)
(* key is not in the mapping, "none": None, "str", "int", "dict",          *)
(* "emptydict": {}, "other": a truthy value of a kind the code does not    *)
(* expect, such as a list, "float") and v its payload. Strings are         *)
(* sequences of characters. A float, and a DECIMAL(10, 8) column value, is *)
(* kept in tenths: PyFloat(15) is 1.5.                                     *)
(* Identifier strings are sequences of characters, so that str.replace is  *)
(* computed; the 21-character prefix 'https://openalex.org/' is            *)
(* abbreviated to the two characters "h" "/" (like the original it has no  *)
(* proper border, so occurrences never overlap).                           *)
(*                                                                         *)
(* CURRENT_TIMESTAMP is the start time of the transaction; the clock `now` *)
(* is read once per transaction and successive transactions of the         *)
(* single-threaded client read strictly increasing values.                 *)
(***************************************************************************)
EXTENDS Integers, Sequences, FiniteSets, TLC

VARIABLES
    table,             \* the committed rows of the papers table
    nextSerial,        \* the sequence behind papers.id (SERIAL)
    now,               \* the store's clock: the last transaction timestamp
    pc,                \* where insert_papers_with_deduplication stands
    papers,            \* its argument: the raw records
    batch_size,        \* self.batch_size
    processed_papers,  \* the normalized rows kept by the loop
    skipped,           \* the loop's skip counter
    i,                 \* first index (1-based) of the chunk being written
    j,                 \* index of the row being retried in the chunk
    total_inserted,    \* the running count
    result,            \* the value returned by the last completed call
    failed,            \* "Failed to insert paper" lines printed by the call
    log,               \* history: the writes committed so far, in order
    callNo,            \* history: number of calls started
    consumed,          \* history: raw records handed to calls so far
    nraw,              \* SpecNormalize: the raw record
    nout,              \* SpecNormalize: what process_paper made of it
    tableExists,       \* whether the papers table exists in the database
    vpc,               \* where the data quality tests stand
    vmode,             \* which validator runs: "pipeline" or "standalone"
    erring,            \* input: the checks whose query raises in this run
    results,           \* the test results collected so far
    total_tests,       \* the validator's counters
    passed_tests,
    failed_tests,
    exit_code,         \* what the validator returned
    rpc,               \* where PapersDataPipeline.run stands
    skip_tests,        \* its argument
    fetched,           \* papers, as query_api returned them
    run_exit,          \* what run returned
    steps,             \* history: the steps run has called, in order
    errored,           \* history: an exception reached run's except clause
    upc,               \* where the scoped block of a connection stands
    ukind,             \* what opened it: run_test, get_cursor or
                       \* get_connection_context
    uexc,              \* whether an exception is on its way out of it
    conns,             \* history: the connections acquired, in order
    run_test_calls,    \* history: calls of PapersDataValidator.run_test
    fpc,               \* where fetch_recent_works stands
    page,              \* the page it asks for next
    filters,           \* its arguments: which of field_id, subfield_id is set
    all_works,         \* the works it has kept
    seen_ids,          \* the ids of the works it has kept
    ids_read,          \* history: the ids on the pages it has read
    last_page          \* history: the last page it has read

vars == <<table, nextSerial, now, pc, papers, batch_size, processed_papers,
          skipped, i, j, total_inserted, result, failed, log, callNo,
          consumed, nraw, nout, tableExists, vpc, vmode, erring, results,
          total_tests, passed_tests, failed_tests, exit_code, rpc,
          skip_tests, fetched, run_exit, steps, errored, upc, ukind, uexc,
          conns, run_test_calls, fpc, page, filters, all_works, seen_ids,
          ids_read, last_page>>

storeVars == <<table, nextSerial, now, log>>
callVars == <<pc, papers, batch_size, processed_papers, skipped, i, j,
              total_inserted, result, failed, callNo, consumed>>
normVars == <<nraw, nout>>
testVars == <<vpc, vmode, erring, results, total_tests, passed_tests,
              failed_tests, exit_code>>
runVars == <<rpc, skip_tests, fetched, run_exit, steps, errored>>
scopeVars == <<upc, ukind, uexc, conns, run_test_calls>>
fetchVars == <<fpc, page, filters, all_works, seen_ids, ids_read, last_page>>

----------------------------------------------------------------------------
\* Bounds of the model.

\* Longest identifier string drawn for process_paper.
MaxIdLen == 3

\* Raw records handed to insert_papers_with_deduplication over one behaviour.
MaxRecords == 3

\* Largest batch_size drawn for a call.
MaxBatch == 3

\* The scenario of SpecScenario: the number of papers and the defective row.
ScenarioRows == 150
BadRow == 37

\* PapersDataPipeline.__init__(..., batch_size: int = 100)
DefaultBatchSize == 100

----------------------------------------------------------------------------
\* Python values.

PyAbsent == [t |-> "absent", v |-> <<>>]
PyNone == [t |-> "none", v |-> <<>>]
PyOther == [t |-> "other", v |-> <<>>]
PyStr(s) == [t |-> "str", v |-> s]
PyInt(n) == [t |-> "int", v |-> n]
PyFloat(n) == [t |-> "float", v |-> n]
PyDict(d) == [t |-> "dict", v |-> d]
EmptyDict == [t |-> "emptydict", v |-> <<>>]

\* dict.get(key, default): the default only when the key is absent.
PyGet(x, default) == IF x.t = "absent" THEN default ELSE x

\* Python truthiness of the values the model draws.
Truthy(x) ==
    CASE x.t = "str" -> x.v # <<>>
      [] x.t = "int" -> x.v # 0
      [] x.t = "float" -> x.v # 0
      [] x.t = "dict" -> TRUE
      [] x.t = "other" -> TRUE
      [] OTHER -> FALSE

\* a or b
PyOr(a, b) == IF Truthy(a) THEN a ELSE b

\* x.get(...), x.replace(...) exist only on a mapping, a string.
IsMapping(x) == x.t \in {"dict", "emptydict"}

OPENALEX_PREFIX == <<"h", "/">>

\* 'https://doi.org/', abbreviated likewise.
DOI_PREFIX == <<"d", "/">>

StartsWith(s, p) == Len(s) >= Len(p) /\ SubSeq(s, 1, Len(p)) = p

\* str.replace(old, ''): every non-overlapping occurrence, left to right.
RECURSIVE StrRemoveAll(_, _)
StrRemoveAll(s, old) ==
    IF Len(s) < Len(old) THEN s
    ELSE IF StartsWith(s, old)
         THEN StrRemoveAll(SubSeq(s, Len(old) + 1, Len(s)), old)
         ELSE <<Head(s)>> \o StrRemoveAll(Tail(s), old)

----------------------------------------------------------------------------
\* process_paper.

\* A raw element that is no mapping at all (a string, a list, None).
NotAMapping ==
    [mapping |-> FALSE, id |-> PyAbsent, title |-> PyAbsent,
     display_name |-> PyAbsent, cited_by_count |-> PyAbsent,
     primary_topic |-> PyAbsent, doi |-> PyAbsent,
     citation_normalized_percentile |-> PyAbsent,
     countries_distinct_count |-> PyAbsent,
     institutions_distinct_count |-> PyAbsent]

\* A raw record with the keys id, title, display_name, cited_by_count and
\* primary_topic as given and without the other keys.
RawPaper(id, title, display_name, cited, topic) ==
    [mapping |-> TRUE, id |-> id, title |-> title,
     display_name |-> display_name, cited_by_count |-> cited,
     primary_topic |-> topic, doi |-> PyAbsent,
     citation_normalized_percentile |-> PyAbsent,
     countries_distinct_count |-> PyAbsent,
     institutions_distinct_count |-> PyAbsent]

\* The raw record with its doi, citation_normalized_percentile,
\* countries_distinct_count and institutions_distinct_count keys as given.
WithMetrics(paper, doi, percentile, countries, institutions) ==
    [paper EXCEPT !.doi = doi,
                  !.citation_normalized_percentile = percentile,
                  !.countries_distinct_count = countries,
                  !.institutions_distinct_count = institutions]

NoClassification ==
    [subfield_name |-> PyNone, field_name |-> PyNone, domain_name |-> PyNone]

NoRow ==
    [openalex_id |-> <<>>, doi |-> PyNone, title |-> PyNone,
     primary_topic_name |-> PyNone, primary_topic_score |-> PyNone,
     cited_by_count |-> PyNone, citation_percentile |-> PyNone,
     fwci |-> PyNone, countries_count |-> PyNone,
     institutions_count |-> PyNone]

\* Whether process_paper raises: paper.get on a non-mapping, .replace on an
\* id that is no string, .startswith on a truthy doi that is no string,
\* .get on a truthy primary_topic or citation_normalized_percentile that is
\* no mapping, or on a truthy subfield, field or domain of the primary topic
\* that is no mapping.
ProcessPaperRaises(paper) ==
    \/ ~paper.mapping
    \/ PyGet(paper.id, PyStr(<<>>)).t # "str"
    \/ LET doi == PyGet(paper.doi, PyNone)
       IN Truthy(doi) /\ doi.t # "str"
    \/ LET primary_topic == PyGet(paper.primary_topic, EmptyDict)
       IN \/ Truthy(primary_topic) /\ ~IsMapping(primary_topic)
          \/ /\ Truthy(primary_topic)
             /\ IsMapping(primary_topic)
             /\ \E sub \in {PyGet(primary_topic.v.subfield, EmptyDict),
                             PyGet(primary_topic.v.field, EmptyDict),
                             PyGet(primary_topic.v.domain, EmptyDict)} :
                   Truthy(sub) /\ ~IsMapping(sub)
    \/ LET citation_normalized ==
               PyGet(paper.citation_normalized_percentile, EmptyDict)
       IN Truthy(citation_normalized) /\ ~IsMapping(citation_normalized)

\* openalex_id = paper.get('id', '').replace('https://openalex.org/', '')
ExtractOpenalexId(id) == StrRemoveAll(PyGet(id, PyStr(<<>>)).v, OPENALEX_PREFIX)

\* title = paper.get('title', '') or paper.get('display_name', '')
ExtractTitle(paper) ==
    PyOr(PyGet(paper.title, PyStr(<<>>)), PyGet(paper.display_name, PyStr(<<>>)))

\* cited_by_count = paper.get('cited_by_count', 0) or 0
ExtractCitedByCount(paper) ==
    PyOr(PyGet(paper.cited_by_count, PyInt(0)), PyInt(0))

\* primary_topic_name = primary_topic.get('display_name') if primary_topic else None
ExtractPrimaryTopicName(paper) ==
    LET primary_topic == PyGet(paper.primary_topic, EmptyDict)
    IN IF Truthy(primary_topic)
       THEN PyGet(primary_topic.v.display_name, PyNone)
       ELSE PyNone

\* primary_topic_score = primary_topic.get('score') if primary_topic else None
ExtractPrimaryTopicScore(paper) ==
    LET primary_topic == PyGet(paper.primary_topic, EmptyDict)
    IN IF Truthy(primary_topic)
       THEN PyGet(primary_topic.v.score, PyNone)
       ELSE PyNone

\* subfield = primary_topic.get('subfield', {}) if primary_topic else {}
\* subfield_name = subfield.get('display_name') if subfield else None
ExtractSubfieldName(paper) ==
    LET primary_topic == PyGet(paper.primary_topic, EmptyDict)
        subfield == IF Truthy(primary_topic)
                    THEN PyGet(primary_topic.v.subfield, EmptyDict)
                    ELSE EmptyDict
    IN IF Truthy(subfield)
       THEN PyGet(subfield.v.display_name, PyNone)
       ELSE PyNone

\* field = primary_topic.get('field', {}) if primary_topic else {}
\* field_name = field.get('display_name') if field else None
ExtractFieldName(paper) ==
    LET primary_topic == PyGet(paper.primary_topic, EmptyDict)
        field == IF Truthy(primary_topic)
                 THEN PyGet(primary_topic.v.field, EmptyDict)
                 ELSE EmptyDict
    IN IF Truthy(field)
       THEN PyGet(field.v.display_name, PyNone)
       ELSE PyNone

\* Mutant: the domain is looked for inside the field.
ExtractDomainNameUnderField(paper) ==
    LET primary_topic == PyGet(paper.primary_topic, EmptyDict)
        field == IF Truthy(primary_topic)
                 THEN PyGet(primary_topic.v.field, EmptyDict)
                 ELSE EmptyDict
        domain == IF Truthy(field)
                  THEN PyGet(primary_topic.v.domain, EmptyDict)
                  ELSE EmptyDict
    IN IF Truthy(domain)
       THEN PyGet(domain.v.display_name, PyNone)
       ELSE PyNone

\* domain = primary_topic.get('domain', {}) if primary_topic else {}
\* domain_name = domain.get('display_name') if domain else None
ExtractDomainName(paper) ==
    LET primary_topic == PyGet(paper.primary_topic, EmptyDict)
        domain == IF Truthy(primary_topic)
                  THEN PyGet(primary_topic.v.domain, EmptyDict)
                  ELSE EmptyDict
    IN IF Truthy(domain)
       THEN PyGet(domain.v.display_name, PyNone)
       ELSE PyNone

\* extract_doi: the doi without its URL prefix when it starts with it, None
\* when it is missing, null or empty.
ExtractDoi(paper) ==
    LET doi == PyGet(paper.doi, PyNone)
    IN IF Truthy(doi)
       THEN IF StartsWith(doi.v, DOI_PREFIX)
            THEN PyStr(StrRemoveAll(doi.v, DOI_PREFIX))
            ELSE doi
       ELSE PyNone

\* citation_percentile = citation_normalized.get('value')
\*                           if citation_normalized else None
ExtractCitationPercentile(paper) ==
    LET citation_normalized ==
            PyGet(paper.citation_normalized_percentile, EmptyDict)
    IN IF Truthy(citation_normalized)
       THEN PyGet(citation_normalized.v.value, PyNone)
       ELSE PyNone

\* countries_count = paper.get('countries_distinct_count', 0) or 0
ExtractCountriesCount(paper) ==
    PyOr(PyGet(paper.countries_distinct_count, PyInt(0)), PyInt(0))

\* institutions_count = paper.get('institutions_distinct_count', 0) or 0
ExtractInstitutionsCount(paper) ==
    PyOr(PyGet(paper.institutions_distinct_count, PyInt(0)), PyInt(0))

\* The tuple process_paper returns (the columns the model keeps); fwci is
\* always None. subfield_name, field_name and domain_name are kept apart
\* from the row that goes to the table, whose model does not hold them.
ProcessPaper(paper) ==
    IF ProcessPaperRaises(paper)
    THEN [raised |-> TRUE, row |-> NoRow, classification |-> NoClassification]
    ELSE [raised |-> FALSE,
          classification |->
              [subfield_name |-> ExtractSubfieldName(paper),
               field_name |-> ExtractFieldName(paper),
               domain_name |-> ExtractDomainName(paper)],
          row |-> [openalex_id |-> ExtractOpenalexId(paper.id),
                   doi |-> ExtractDoi(paper),
                   title |-> ExtractTitle(paper),
                   primary_topic_name |-> ExtractPrimaryTopicName(paper),
                   primary_topic_score |-> ExtractPrimaryTopicScore(paper),
                   cited_by_count |-> ExtractCitedByCount(paper),
                   citation_percentile |-> ExtractCitationPercentile(paper),
                   fwci |-> PyNone,
                   countries_count |-> ExtractCountriesCount(paper),
                   institutions_count |-> ExtractInstitutionsCount(paper)]]

\* The except clause of the loop formats paper.get('id', 'unknown') into its
\* warning: on an element that is no mapping that call raises again, inside
\* the handler, and the exception leaves the loop.
HandlerRaises(paper) == ~paper.mapping

\* One pass of the body of the normalization loop, from the loop's state
\* acc = [raised, processed, skipped]; nothing runs once an exception has
\* left the loop.
NormalizeBody(paper, acc) ==
    IF acc.raised THEN acc
    ELSE LET r == ProcessPaper(paper)
         IN IF r.raised
            THEN IF HandlerRaises(paper)
                 THEN [acc EXCEPT !.raised = TRUE]
                 ELSE [acc EXCEPT !.skipped = @ + 1]
            ELSE IF r.row.openalex_id = <<>>
                 THEN [acc EXCEPT !.skipped = @ + 1]
                 ELSE [acc EXCEPT !.processed = Append(@, r.row)]

\* for paper in papers: the body over ps[lo..hi] in order (the range is
\* halved only to keep the evaluation shallow).
RECURSIVE NormalizeLoop(_, _, _, _)
NormalizeLoop(ps, lo, hi, acc) ==
    IF lo > hi THEN acc
    ELSE IF lo = hi THEN NormalizeBody(ps[lo], acc)
    ELSE LET mid == (lo + hi) \div 2
             first == NormalizeLoop(ps, lo, mid, acc)
         IN IF first.raised THEN first
            ELSE NormalizeLoop(ps, mid + 1, hi, first)

Normalize(ps) ==
    NormalizeLoop(ps, 1, Len(ps),
                  [raised |-> FALSE, processed |-> <<>>, skipped |-> 0])

----------------------------------------------------------------------------
\* The papers table and the INSERT ... ON CONFLICT statement.

\* DECIMAL(10, 8) holds absolute values below 10^2, here in tenths.
DecimalBound == 1000

\* A value that makes the store raise "numeric field overflow".
NumericOverflows(x) ==
    x.t = "float" /\ (x.v >= DecimalBound \/ x.v <= 0 - DecimalBound)

\* Mutant: the table as if cited_by_count carried CHECK (cited_by_count >= 0).
StoreAcceptsWithCheck(row) ==
    /\ row.title.t # "none"
    /\ ~NumericOverflows(row.primary_topic_score)
    /\ ~NumericOverflows(row.citation_percentile)
    /\ row.cited_by_count.t = "int" => row.cited_by_count.v >= 0

\* The statement's parameters pass the table's constraints:
\* openalex_id VARCHAR(255) UNIQUE NOT NULL, title TEXT NOT NULL and the
\* DECIMAL(10, 8) type of the scores. No column carries a CHECK constraint,
\* so the counts may hold any integer and the scores any value that fits.
StoreAccepts(row) ==
    /\ row.title.t # "none"
    /\ ~NumericOverflows(row.primary_topic_score)
    /\ ~NumericOverflows(row.citation_percentile)

\* The non-key columns the statement writes, from its parameters.
Columns(row) ==
    [doi |-> row.doi, title |-> row.title,
     primary_topic_name |-> row.primary_topic_name,
     primary_topic_score |-> row.primary_topic_score,
     cited_by_count |-> row.cited_by_count,
     citation_percentile |-> row.citation_percentile,
     fwci |-> row.fwci,
     countries_count |-> row.countries_count,
     institutions_count |-> row.institutions_count]

NewRow(row, ts, serial) ==
    [id |-> serial, openalex_id |-> row.openalex_id, cols |-> Columns(row),
     created_at |-> ts, updated_at |-> ts]

\* Mutant: the update path also sets created_at.
UpdatedRowTouchingCreatedAt(old, row, ts) ==
    [old EXCEPT !.cols = Columns(row), !.created_at = ts, !.updated_at = ts]

\* Mutant: the SET list lacks cited_by_count.
UpdatedRowKeepingCount(old, row, ts) ==
    [old EXCEPT !.cols = [Columns(row) EXCEPT
                             !.cited_by_count = old.cols.cited_by_count],
                !.updated_at = ts]

\* ON CONFLICT (openalex_id) DO UPDATE SET <every non-key column> =
\* EXCLUDED.<column>, updated_at = CURRENT_TIMESTAMP
UpdatedRow(old, row, ts) ==
    [old EXCEPT !.cols = Columns(row), !.updated_at = ts]

\* Mutant: the unique key is (openalex_id, title).
ConflictsOnIdAndTitle(tbl, row) ==
    \E r \in tbl : r.openalex_id = row.openalex_id /\ r.cols.title = row.title

\* Whether the unique index on openalex_id finds a conflicting row.
Conflicts(tbl, row) == \E r \in tbl : r.openalex_id = row.openalex_id

\* Mutant: ON CONFLICT (openalex_id) DO NOTHING.
UpsertRowDoNothing(tbl, row, ts, serial) ==
    IF Conflicts(tbl, row)
    THEN tbl
    ELSE tbl \cup {NewRow(row, ts, serial)}

\* One accepted statement on the view tbl of its transaction, whose
\* CURRENT_TIMESTAMP is ts.
UpsertRow(tbl, row, ts, serial) ==
    IF Conflicts(tbl, row)
    THEN {IF r.openalex_id = row.openalex_id THEN UpdatedRow(r, row, ts) ELSE r
          : r \in tbl}
    ELSE tbl \cup {NewRow(row, ts, serial)}

\* cur.execute(insert_sql, row) in the open transaction, whose state is
\* st = [ok, view, serial, done]: ok until a statement has raised, view the
\* table as the transaction sees it, done the rows written. Every
\* statement executed takes a value of the sequence behind id, also one that
\* fails or one that updates.
Execute(row, ts, st) ==
    IF ~st.ok THEN st
    ELSE IF StoreAccepts(row)
         THEN [st EXCEPT !.view = UpsertRow(@, row, ts, st.serial),
                         !.serial = @ + 1,
                         !.done = Append(@, row)]
         ELSE [st EXCEPT !.ok = FALSE, !.serial = @ + 1]

\* Mutant: executemany passes over the rows the store rejects.
RECURSIVE ExecuteManyIgnoringErrors(_, _, _, _, _)
ExecuteManyIgnoringErrors(batch, lo, hi, ts, st) ==
    IF lo > hi THEN st
    ELSE ExecuteManyIgnoringErrors(batch, lo + 1, hi, ts,
             [Execute(batch[lo], ts, st) EXCEPT !.ok = TRUE])

\* cur.executemany(insert_sql, batch): the statement once per row of
\* batch[lo..hi], in order, raising at the first row the store rejects (the
\* range is halved only to keep the evaluation shallow).
RECURSIVE ExecuteMany(_, _, _, _, _)
ExecuteMany(batch, lo, hi, ts, st) ==
    IF lo > hi THEN st
    ELSE IF lo = hi THEN Execute(batch[lo], ts, st)
    ELSE LET mid == (lo + hi) \div 2
             first == ExecuteMany(batch, lo, mid, ts, st)
         IN IF ~first.ok THEN first
            ELSE ExecuteMany(batch, mid + 1, hi, ts, first)

\* The state of a transaction that has just begun on the table tbl.
Begin(tbl, serial) ==
    [ok |-> TRUE, view |-> tbl, serial |-> serial, done |-> <<>>]

\* conn.commit(): the transaction's view becomes the table.
Commit(committed, view) == view

\* Mutant: the rollback also drops what earlier transactions committed.
RollbackDroppingCommitted(committed, view) == {}

\* Mutant: the except clause does not roll back.
RollbackKeepingView(committed, view) == view

\* conn.rollback(): the transaction's view is dropped.
Rollback(committed, view) == committed

\* History: the rows of one committed transaction, as log entries.
LogEntries(rows, ts, kind) ==
    [k \in 1..Len(rows) |->
        [row |-> rows[k], ts |-> ts, call |-> callNo, kind |-> kind]]

----------------------------------------------------------------------------
\* The raw records the calls are fed.

W1 == <<"W">>
W2 == <<"W", "W">>
TitleA == PyStr(<<"A">>)
TitleB == PyStr(<<"B">>)
\* primary_topic = {'display_name': ..., 'score': ..., 'subfield': ...,
\*                  'field': ..., 'domain': ...}
TopicOf(display_name, score, subfield, field, domain) ==
    PyDict([display_name |-> display_name, score |-> score,
            subfield |-> subfield, field |-> field, domain |-> domain])

Topic == TopicOf(PyStr(<<"T">>), PyFloat(9), PyAbsent, PyAbsent, PyAbsent)
Doi == PyStr(DOI_PREFIX \o <<"x">>)

\* citation_normalized_percentile = {'value': v / 10}
Percentile(v) == PyDict([value |-> PyFloat(v)])

RawSamples ==
    { WithMetrics(
          RawPaper(PyStr(OPENALEX_PREFIX \o W1), TitleA, PyAbsent, PyInt(0), Topic),
          Doi, Percentile(5), PyInt(2), PyNone),
      WithMetrics(
          RawPaper(PyStr(W1), PyNone, TitleB, PyInt(5), PyNone),
          PyNone, Percentile(15), PyAbsent, PyInt(3)),
      RawPaper(PyStr(OPENALEX_PREFIX \o W2), TitleA, TitleB, PyAbsent, PyAbsent),
      RawPaper(PyStr(W2), PyNone, PyNone, PyInt(5), PyAbsent),
      RawPaper(PyStr(W2), PyAbsent, PyAbsent, PyNone, EmptyDict),
      RawPaper(PyAbsent, TitleA, PyAbsent, PyInt(0), PyAbsent),
      RawPaper(PyStr(OPENALEX_PREFIX), TitleA, PyAbsent, PyInt(0), PyAbsent),
      RawPaper(PyNone, TitleA, PyAbsent, PyInt(0), PyAbsent),
      NotAMapping }

NoResult == 0 - 1

----------------------------------------------------------------------------
\* insert_papers_with_deduplication, one transaction per step.

Min(a, b) == IF a <= b THEN a ELSE b

\* batch = processed_papers[i:i + self.batch_size]
Batch == SubSeq(processed_papers, i, Min(i + batch_size - 1, Len(processed_papers)))

\* Mutant: the count grows by self.batch_size.
BatchSizeNominal(batch) == batch_size

\* batch_size_actual = len(batch)
BatchSizeActual(batch) == Len(batch)

\* Mutant: the loop passes over the row after each chunk.
NextChunkSkippingRow ==
    /\ i' = i + batch_size + 1
    /\ pc' = IF i + batch_size + 1 > Len(processed_papers)
             THEN "done" ELSE "chunk"

\* The for loop over range(0, len(processed_papers), self.batch_size) moves
\* to the next chunk, or ends.
NextChunk ==
    /\ i' = i + batch_size
    /\ pc' = IF i + batch_size > Len(processed_papers) THEN "done" ELSE "chunk"

\* upload_papers(ps) with a non-empty list and self.batch_size = bs: the
\* normalization loop, up to the first chunk. An exception that leaves the
\* loop leaves the call, with processed_papers and skipped as they were when
\* it was raised.
StartCall(ps, bs) ==
    LET r == Normalize(ps)
    IN /\ papers' = ps
       /\ batch_size' = bs
       /\ callNo' = callNo + 1
       /\ consumed' = consumed + Len(ps)
       /\ processed_papers' = r.processed
       /\ skipped' = r.skipped
       /\ pc' = IF r.raised THEN "raised"
                ELSE IF r.processed = <<>> THEN "done" ELSE "chunk"
       /\ i' = 1
       /\ j' = 0
       /\ total_inserted' = 0
       /\ failed' = 0
       /\ result' = NoResult
       /\ UNCHANGED <<storeVars, normVars, scopeVars, fetchVars>>

CallStart ==
    /\ pc \in {"idle", "returned", "raised"}
    /\ \E n \in 1..(MaxRecords - consumed), bs \in 1..MaxBatch :
         \E ps \in [1..n -> RawSamples] : StartCall(ps, bs)
    /\ UNCHANGED <<tableExists, testVars, runVars>>

\* One chunk: executemany and commit, or rollback and on to the retries.
BulkChunk ==
    /\ pc = "chunk"
    /\ LET ts == now + 1
           st == ExecuteMany(Batch, 1, Len(Batch), ts,
                             Begin(table, nextSerial))
       IN /\ now' = ts
          /\ nextSerial' = st.serial
          /\ IF st.ok
             THEN /\ table' = Commit(table, st.view)
                  /\ total_inserted' = total_inserted + BatchSizeActual(Batch)
                  /\ log' = log \o LogEntries(st.done, ts, "bulk")
                  /\ NextChunk
                  /\ j' = j
             ELSE /\ table' = Rollback(table, st.view)
                  /\ total_inserted' = total_inserted
                  /\ log' = log
                  /\ pc' = "retry"
                  /\ i' = i
                  /\ j' = i
    /\ UNCHANGED <<papers, batch_size, processed_papers, skipped, result,
                   failed, callNo, consumed, normVars, scopeVars, fetchVars, tableExists, testVars,
                   runVars>>

\* One row of a chunk whose bulk write failed: execute and commit, or
\* rollback and the "Failed to insert paper" line.
RetryRow ==
    /\ pc = "retry"
    /\ LET ts == now + 1
           st == Execute(processed_papers[j], ts, Begin(table, nextSerial))
       IN /\ now' = ts
          /\ nextSerial' = st.serial
          /\ IF st.ok
             THEN /\ table' = Commit(table, st.view)
                  /\ total_inserted' = total_inserted + 1
                  /\ log' = log \o LogEntries(st.done, ts, "single")
                  /\ failed' = failed
             ELSE /\ table' = Rollback(table, st.view)
                  /\ total_inserted' = total_inserted
                  /\ log' = log
                  /\ failed' = failed + 1
    /\ IF j = Len(Batch) + i - 1
       THEN NextChunk /\ j' = j
       ELSE /\ j' = j + 1
            /\ UNCHANGED <<pc, i>>
    /\ UNCHANGED <<papers, batch_size, processed_papers, skipped, result,
                   callNo, consumed, normVars, scopeVars, fetchVars, tableExists, testVars,
                   runVars>>

\* cur.close(), the summary line, return total_inserted: the locals of the
\* call are gone, its return value and its output stay.
Return ==
    /\ pc = "done"
    /\ pc' = "returned"
    /\ result' = total_inserted
    /\ papers' = <<>>
    /\ processed_papers' = <<>>
    /\ skipped' = 0
    /\ i' = 1
    /\ j' = 0
    /\ total_inserted' = 0
    /\ UNCHANGED <<storeVars, normVars, scopeVars, fetchVars, batch_size, failed, callNo, consumed,
                   tableExists, testVars, runVars>>

NoPaper == NotAMapping

\* No validator has run.
NoTests ==
    /\ vpc = "idle"
    /\ vmode = "pipeline"
    /\ erring = {}
    /\ results = <<>>
    /\ total_tests = 0
    /\ passed_tests = 0
    /\ failed_tests = 0
    /\ exit_code = NoResult

\* PapersDataPipeline.run has not been called.
NoRun ==
    /\ rpc = "idle"
    /\ skip_tests = FALSE
    /\ fetched = <<>>
    /\ run_exit = NoResult
    /\ steps = <<>>
    /\ errored = FALSE

\* No connection has been acquired.
NoScope ==
    /\ upc = "idle"
    /\ ukind = "get_cursor"
    /\ uexc = FALSE
    /\ conns = <<>>
    /\ run_test_calls = 0

\* fetch_recent_works has not been called.
NoFetch ==
    /\ fpc = "idle"
    /\ page = 1
    /\ filters = [field_id |-> FALSE, subfield_id |-> FALSE]
    /\ all_works = <<>>
    /\ seen_ids = {}
    /\ ids_read = {}
    /\ last_page = <<>>

Init ==
    /\ table = {}
    /\ nextSerial = 1
    /\ now = 0
    /\ pc = "idle"
    /\ papers = <<>>
    /\ batch_size = 1
    /\ processed_papers = <<>>
    /\ skipped = 0
    /\ i = 1
    /\ j = 0
    /\ total_inserted = 0
    /\ result = NoResult
    /\ failed = 0
    /\ log = <<>>
    /\ callNo = 0
    /\ consumed = 0
    /\ nraw = NoPaper
    /\ nout = [raised |-> FALSE, row |-> NoRow,
               classification |-> NoClassification]
    /\ tableExists = TRUE
    /\ NoTests
    /\ NoScope
    /\ NoFetch
    /\ NoRun

Next == CallStart \/ BulkChunk \/ RetryRow \/ Return

Spec == Init /\ [][Next]_vars

----------------------------------------------------------------------------
\* process_paper alone, over every raw record of a bounded shape.

IdChars == {"h", "/", "W"}
IdStrings == UNION {[1..n -> IdChars] : n \in 0..MaxIdLen}

RawIds == {PyAbsent, PyNone, PyOther} \cup {PyStr(x) : x \in IdStrings}
RawTitles == {PyAbsent, PyNone, PyStr(<<>>), TitleA}
RawDisplayNames == {PyAbsent, PyNone, PyStr(<<>>), TitleB}
RawCounts == {PyAbsent, PyNone, PyInt(0), PyInt(5), PyInt(0 - 1)}
RawTopics ==
    {PyAbsent, PyNone, EmptyDict, PyOther, Topic,
     TopicOf(PyAbsent, PyAbsent, PyAbsent, PyAbsent, PyAbsent)}

RawDois ==
    {PyAbsent, PyNone, PyOther, PyStr(<<>>), Doi, PyStr(<<"x">>),
     PyStr(<<"x">> \o DOI_PREFIX)}
RawPercentiles ==
    {PyAbsent, PyNone, EmptyDict, PyOther, PyDict([value |-> PyAbsent]),
     PyDict([value |-> PyNone]), Percentile(0), Percentile(5), Percentile(10),
     Percentile(15), Percentile(0 - 5)}

\* Records that vary in their identifier, title and topic.
RawRecords ==
    {NotAMapping} \cup
    {RawPaper(id, t, d, c, pt) :
        id \in RawIds, t \in RawTitles, d \in RawDisplayNames,
        c \in RawCounts, pt \in RawTopics}

\* What the primary topic may hold under 'subfield', 'field' or 'domain':
\* nothing, null, {}, a value that is no mapping, a sub-object with the
\* display name name and one without a display name.
SubObjects(name) ==
    {PyAbsent, PyNone, EmptyDict, PyOther,
     PyDict([display_name |-> PyStr(name)]),
     PyDict([display_name |-> PyAbsent])}

\* A record that varies in the sub-objects of its primary topic.
TopicRecord(subfield, field, domain) ==
    RawPaper(PyStr(W1), TitleA, PyAbsent, PyInt(0),
             TopicOf(PyStr(<<"T">>), PyFloat(9), subfield, field, domain))

\* A record that varies in its counts, doi and percentile.
MetricRecord(cited, doi, percentile, countries, institutions) ==
    WithMetrics(RawPaper(PyStr(W1), TitleA, PyAbsent, cited, Topic),
                doi, percentile, countries, institutions)

InitNormalize ==
    /\ table = {}
    /\ nextSerial = 1
    /\ now = 0
    /\ pc = "idle"
    /\ papers = <<>>
    /\ batch_size = 1
    /\ processed_papers = <<>>
    /\ skipped = 0
    /\ i = 1
    /\ j = 0
    /\ total_inserted = 0
    /\ result = NoResult
    /\ failed = 0
    /\ log = <<>>
    /\ callNo = 0
    /\ consumed = 0
    /\ \/ nraw \in RawRecords
       \/ \E c \in RawCounts, doi \in RawDois, p \in RawPercentiles,
             cc \in RawCounts, ic \in RawCounts :
             nraw = MetricRecord(c, doi, p, cc, ic)
       \/ \E subfield \in SubObjects(<<"s">>), field \in SubObjects(<<"f">>),
             domain \in SubObjects(<<"d">>) :
             nraw = TopicRecord(subfield, field, domain)
    /\ nout = [raised |-> FALSE, row |-> NoRow,
               classification |-> NoClassification]
    /\ tableExists = TRUE
    /\ NoTests
    /\ NoScope
    /\ NoFetch
    /\ NoRun

\* processed = self.process_paper(paper)
NormalizeOne ==
    /\ pc = "idle"
    /\ pc' = "normalized"
    /\ nout' = ProcessPaper(nraw)
    /\ UNCHANGED <<storeVars, nraw, papers, batch_size, processed_papers,
                   skipped, i, j, total_inserted, result, failed, callNo,
                   consumed, tableExists, testVars, runVars, scopeVars,
                   fetchVars>>

NextNormalize == NormalizeOne

SpecNormalize == InitNormalize /\ [][NextNormalize]_vars

----------------------------------------------------------------------------
\* The scenario: ScenarioRows papers with distinct identifiers, one of them
\* defective, written with the default batch size.

Digits == <<"0", "1", "2", "3", "4", "5", "6", "7", "8", "9">>

ScenarioId(k) ==
    <<"W", Digits[(k \div 100) + 1], Digits[((k \div 10) % 10) + 1],
      Digits[(k % 10) + 1]>>

Defects == {"negative_cited_by_count", "null_title", "no_defect"}

ScenarioPaper(k, bad, defect) ==
    RawPaper(PyStr(OPENALEX_PREFIX \o ScenarioId(k)),
             IF k = bad /\ defect = "null_title" THEN PyNone ELSE TitleA,
             IF k = bad /\ defect = "null_title" THEN PyNone ELSE PyAbsent,
             IF k = bad /\ defect = "negative_cited_by_count"
             THEN PyInt(0 - 1) ELSE PyInt(5),
             Topic)

ScenarioPapers(bad, defect) ==
    [k \in 1..ScenarioRows |-> ScenarioPaper(k, bad, defect)]

\* Where the defective row is put: the scenario's row, and the ends of the
\* two chunks.
ScenarioBadRows ==
    {1, BadRow, DefaultBatchSize, DefaultBatchSize + 1, ScenarioRows}

ScenarioStart ==
    /\ pc = "idle"
    /\ \E bad \in ScenarioBadRows, defect \in Defects :
         StartCall(ScenarioPapers(bad, defect), DefaultBatchSize)
    /\ UNCHANGED <<tableExists, testVars, runVars>>

NextScenario == ScenarioStart \/ BulkChunk \/ RetryRow \/ Return

SpecScenario == Init /\ [][NextScenario]_vars

----------------------------------------------------------------------------
\* The data quality tests: run_data_quality_tests of the pipeline and
\* PapersDataValidator of data_quality_tests.py, over the committed table.

\* 1.0, the upper end of the score range, in tenths.
ScoreOne == 10

\* x IS NULL
SqlIsNull(x) == x.t = "none"

\* x < n and x > n on a column value: never true of NULL.
SqlLess(x, n) == x.t \in {"int", "float"} /\ x.v < n
SqlGreater(x, n) == x.t \in {"int", "float"} /\ x.v > n

\* x = '' on a text column.
SqlIsEmpty(x) == x.t = "str" /\ x.v = <<>>

\* WHERE openalex_id IS NULL OR openalex_id = ''. The column is NOT NULL and
\* holds a string in every row.
MissingOpenalexId(tbl) == Cardinality({r \in tbl : r.openalex_id = <<>>})

\* WHERE title IS NULL OR title = ''
MissingTitle(tbl) ==
    Cardinality({r \in tbl : SqlIsNull(r.cols.title) \/ SqlIsEmpty(r.cols.title)})

\* WHERE cited_by_count < 0
NegativeCitedByCount(tbl) ==
    Cardinality({r \in tbl : SqlLess(r.cols.cited_by_count, 0)})

\* WHERE countries_count < 0
NegativeCountriesCount(tbl) ==
    Cardinality({r \in tbl : SqlLess(r.cols.countries_count, 0)})

\* WHERE institutions_count < 0
NegativeInstitutionsCount(tbl) ==
    Cardinality({r \in tbl : SqlLess(r.cols.institutions_count, 0)})

\* Mutant: the range check without its lower end.
InvalidCitationPercentileAboveOnly(tbl) ==
    Cardinality({r \in tbl : SqlGreater(r.cols.citation_percentile, ScoreOne)})

\* WHERE citation_percentile IS NOT NULL
\*   AND (citation_percentile < 0.0 OR citation_percentile > 1.0)
InvalidCitationPercentile(tbl) ==
    Cardinality({r \in tbl :
        /\ ~SqlIsNull(r.cols.citation_percentile)
        /\ \/ SqlLess(r.cols.citation_percentile, 0)
           \/ SqlGreater(r.cols.citation_percentile, ScoreOne)})

\* WHERE primary_topic_score IS NOT NULL
\*   AND (primary_topic_score < 0.0 OR primary_topic_score > 1.0)
InvalidPrimaryTopicScore(tbl) ==
    Cardinality({r \in tbl :
        /\ ~SqlIsNull(r.cols.primary_topic_score)
        /\ \/ SqlLess(r.cols.primary_topic_score, 0)
           \/ SqlGreater(r.cols.primary_topic_score, ScoreOne)})

\* WHERE fwci IS NOT NULL AND fwci < 0
NegativeFwci(tbl) ==
    Cardinality({r \in tbl :
        ~SqlIsNull(r.cols.fwci) /\ SqlLess(r.cols.fwci, 0)})

\* Mutant: the rows that share their openalex_id with another row.
DuplicateOpenalexIdRows(tbl) ==
    Cardinality({r \in tbl :
        \E r2 \in tbl : r2 # r /\ r2.openalex_id = r.openalex_id})

\* SELECT COUNT(*) FROM (SELECT openalex_id ... WHERE openalex_id IS NOT NULL
\*                       GROUP BY openalex_id HAVING COUNT(*) > 1)
DuplicateOpenalexId(tbl) ==
    Cardinality({id \in {r.openalex_id : r \in tbl} :
        Cardinality({r \in tbl : r.openalex_id = id}) > 1})

\* SELECT COUNT(*) FROM (SELECT doi ... WHERE doi IS NOT NULL AND doi != ''
\*                       GROUP BY doi HAVING COUNT(*) > 1)
DuplicateDoi(tbl) ==
    Cardinality({d \in {r.cols.doi : r \in tbl} :
        /\ ~SqlIsNull(d)
        /\ ~SqlIsEmpty(d)
        /\ Cardinality({r \in tbl : r.cols.doi = d}) > 1})

\* The checks, by their test_name, in the order they are run.
RequiredFieldChecks == <<"Missing openalex_id", "Missing title">>
CitationCountChecks ==
    <<"Negative cited_by_count", "Negative countries_count",
      "Negative institutions_count">>
ScoreRangeChecks ==
    <<"Invalid citation_percentile range", "Invalid primary_topic_score range",
      "Negative fwci">>
DuplicateChecks == <<"Duplicate openalex_id", "Duplicate DOI">>

CheckNames ==
    RequiredFieldChecks \o CitationCountChecks \o ScoreRangeChecks
        \o DuplicateChecks

\* The checks that decide the outcome: all but the DOI check.
HardChecks ==
    {CheckNames[k] : k \in 1..Len(CheckNames)} \ {"Duplicate DOI"}

\* What the query of a check returns on the table.
QueryCount(name, tbl) ==
    CASE name = "Missing openalex_id" -> MissingOpenalexId(tbl)
      [] name = "Missing title" -> MissingTitle(tbl)
      [] name = "Negative cited_by_count" -> NegativeCitedByCount(tbl)
      [] name = "Negative countries_count" -> NegativeCountriesCount(tbl)
      [] name = "Negative institutions_count" -> NegativeInstitutionsCount(tbl)
      [] name = "Invalid citation_percentile range" ->
             InvalidCitationPercentile(tbl)
      [] name = "Invalid primary_topic_score range" ->
             InvalidPrimaryTopicScore(tbl)
      [] name = "Negative fwci" -> NegativeFwci(tbl)
      [] name = "Duplicate openalex_id" -> DuplicateOpenalexId(tbl)
      [] name = "Duplicate DOI" -> DuplicateDoi(tbl)

\* run_test(test_name, query, description) with expect_zero = True: the
\* result dictionary. A query that raises gives a result with status ERROR,
\* an 'error' key and no 'count' key.
RunTest(name, tbl, raises) ==
    IF raises
    THEN [name |-> name, status |-> "ERROR", count |-> PyAbsent,
          error |-> PyOther, passed |-> FALSE]
    ELSE LET count == QueryCount(name, tbl)
             passed == (count = 0)
         IN [name |-> name, status |-> IF passed THEN "PASS" ELSE "FAIL",
             count |-> PyInt(count), error |-> PyAbsent, passed |-> passed]

\* The validator's collected results and counters.
Tally == [results |-> results, total |-> total_tests,
          passed |-> passed_tests, failed |-> failed_tests]

\* results.append(test); total_tests += 1; passed_tests or failed_tests += 1
\* by test['passed'].
Count(acc, test) ==
    [results |-> Append(acc.results, test), total |-> acc.total + 1,
     passed |-> IF test.passed THEN acc.passed + 1 ELSE acc.passed,
     failed |-> IF test.passed THEN acc.failed ELSE acc.failed + 1]

\* The pipeline's DOI check: "always counts as passed for the summary".
CountAsPassed(acc, test) ==
    [results |-> Append(acc.results, test), total |-> acc.total + 1,
     passed |-> acc.passed + 1, failed |-> acc.failed]

\* Mutant: the DOI check counted like every other check.
CountDoiAsStandalone(acc, test) == Count(acc, test)

\* How the DOI check is counted: the pipeline counts it as passed whatever
\* its result, PapersDataValidator.run_test counts it like every check.
CountDoi(acc, test) ==
    IF vmode = "pipeline" THEN CountAsPassed(acc, test) ELSE Count(acc, test)

\* Mutant: the checks after one that did not pass are not run.
RECURSIVE RunChecksUntilFailure(_, _, _, _)
RunChecksUntilFailure(names, lo, hi, acc) ==
    IF lo > hi THEN acc
    ELSE LET test == RunTest(names[lo], table, names[lo] \in erring)
             counted == IF names[lo] = "Duplicate DOI"
                        THEN CountDoi(acc, test)
                        ELSE Count(acc, test)
         IN IF test.passed
            THEN RunChecksUntilFailure(names, lo + 1, hi, counted)
            ELSE counted

\* The checks names[lo..hi] run in order on the table.
RECURSIVE RunChecks(_, _, _, _)
RunChecks(names, lo, hi, acc) ==
    IF lo > hi THEN acc
    ELSE LET test == RunTest(names[lo], table, names[lo] \in erring)
         IN RunChecks(names, lo + 1, hi,
                      IF names[lo] = "Duplicate DOI"
                      THEN CountDoi(acc, test)
                      ELSE Count(acc, test))

\* One group of checks, and on to the next position.
TestGroup(names, next) ==
    LET acc == RunChecks(names, 1, Len(names), Tally)
    IN /\ results' = acc.results
       /\ total_tests' = acc.total
       /\ passed_tests' = acc.passed
       /\ failed_tests' = acc.failed
       /\ vpc' = next
       /\ UNCHANGED <<vmode, erring, exit_code>>

\* The queries that may raise: the checks and the look for the table.
Queries == {CheckNames[k] : k \in 1..Len(CheckNames)} \cup {"table_exists"}

\* The runs drawn: no query raises, or one of them does.
ErrorScenarios == {{}} \cup {{q} : q \in Queries}

\* The start of the tests in mode m with the queries errs raising: the
\* counters are fresh; the table is looked for, and without it the result
\* is 1 at once. When that look raises the pipeline lets the exception out
\* of run_data_quality_tests, run_all_tests catches it and returns 1.
StartTests(m, errs) ==
    /\ vmode' = m
    /\ erring' = errs
    /\ results' = <<>>
    /\ total_tests' = 0
    /\ passed_tests' = 0
    /\ failed_tests' = 0
    /\ IF "table_exists" \in errs
       THEN IF m = "pipeline"
            THEN vpc' = "raised" /\ exit_code' = NoResult
            ELSE vpc' = "returned" /\ exit_code' = 1
       ELSE IF ~tableExists
            THEN vpc' = "returned" /\ exit_code' = 1
            ELSE vpc' = "missing_required_fields" /\ exit_code' = NoResult

\* TEST 1: Missing Required Fields
TestMissingRequiredFields ==
    /\ vpc = "missing_required_fields"
    /\ TestGroup(RequiredFieldChecks, "citation_count_validation")
    /\ UNCHANGED <<storeVars, callVars, normVars, scopeVars, fetchVars, tableExists, runVars>>

\* TEST 2: Citation Count Validation
TestCitationCountValidation ==
    /\ vpc = "citation_count_validation"
    /\ TestGroup(CitationCountChecks, "score_range_validation")
    /\ UNCHANGED <<storeVars, callVars, normVars, scopeVars, fetchVars, tableExists, runVars>>

\* TEST 3: Score Range Validation
TestScoreRangeValidation ==
    /\ vpc = "score_range_validation"
    /\ TestGroup(ScoreRangeChecks, "duplicate_detection")
    /\ UNCHANGED <<storeVars, callVars, normVars, scopeVars, fetchVars, tableExists, runVars>>

\* TEST 4: Duplicate Detection
TestDuplicateDetection ==
    /\ vpc = "duplicate_detection"
    /\ TestGroup(DuplicateChecks, "summary")
    /\ UNCHANGED <<storeVars, callVars, normVars, scopeVars, fetchVars, tableExists, runVars>>

\* The summary: return 0 if failed_tests == 0, else 1.
PrintResults ==
    /\ vpc = "summary"
    /\ vpc' = "returned"
    /\ exit_code' = IF failed_tests = 0 THEN 0 ELSE 1
    /\ UNCHANGED <<vmode, erring, results, total_tests, passed_tests,
                   failed_tests>>
    /\ UNCHANGED <<storeVars, callVars, normVars, scopeVars, fetchVars, tableExists, runVars>>

RunTests ==
    \/ TestMissingRequiredFields
    \/ TestCitationCountValidation
    \/ TestScoreRangeValidation
    \/ TestDuplicateDetection
    \/ PrintResults

----------------------------------------------------------------------------
\* The validator over tables filled by direct inserts, which pass no
\* constraint: any column values, and identifiers that are already there.

\* Rows inserted directly before one validation.
MaxRows == 2

W3 == <<"W", "W", "W">>
W4 == <<"V">>

\* INSERT parameters: identifier, doi, title, scores = <<primary_topic_score,
\* citation_percentile, fwci>>, counts = <<cited_by_count, countries_count,
\* institutions_count>>.
DirectRow(id, doi, title, scores, counts) ==
    [openalex_id |-> id, doi |-> doi, title |-> title,
     primary_topic_name |-> PyNone, primary_topic_score |-> scores[1],
     cited_by_count |-> counts[1], citation_percentile |-> scores[2],
     fwci |-> scores[3], countries_count |-> counts[2],
     institutions_count |-> counts[3]]

DirectRows ==
    { \* a row that passes every check
      DirectRow(W1, PyStr(<<"x">>), TitleA,
                <<PyFloat(9), PyFloat(5), PyFloat(12)>>,
                <<PyInt(3), PyInt(1), PyInt(1)>>),
      \* its identifier again, with other values and null scores
      DirectRow(W1, PyNone, TitleB,
                <<PyNone, PyNone, PyNone>>,
                <<PyInt(0), PyInt(0), PyInt(0)>>),
      \* its doi again, and the ends of the score range
      DirectRow(W2, PyStr(<<"x">>), TitleB,
                <<PyFloat(0), PyFloat(ScoreOne), PyNone>>,
                <<PyInt(0), PyNone, PyNone>>),
      \* a percentile above the range
      DirectRow(W3, PyStr(<<>>), TitleA,
                <<PyNone, PyFloat(ScoreOne + 5), PyNone>>,
                <<PyInt(0), PyInt(0), PyInt(0)>>),
      \* a percentile below the range
      DirectRow(W4, PyStr(<<>>), TitleA,
                <<PyNone, PyFloat(0 - 5), PyNone>>,
                <<PyNone, PyInt(0), PyInt(0)>>),
      \* an empty title, negative counts, a score and an fwci out of range
      DirectRow(<<>>, PyNone, PyStr(<<>>),
                <<PyFloat(ScoreOne + 1), PyNone, PyFloat(0 - 1)>>,
                <<PyInt(0 - 1), PyInt(0 - 2), PyInt(0 - 3)>>) }

\* INSERT INTO papers (...) VALUES (...) by another client, in a
\* transaction of its own, with no unique index in its way.
DirectInsert ==
    /\ vpc = "idle"
    /\ tableExists
    /\ Cardinality(table) < MaxRows
    /\ \E row \in DirectRows :
          table' = table \cup {NewRow(row, now + 1, nextSerial)}
    /\ nextSerial' = nextSerial + 1
    /\ now' = now + 1
    /\ UNCHANGED <<log, callVars, normVars, scopeVars, fetchVars, tableExists, testVars, runVars>>

\* run_data_quality_tests() of a pipeline, or run_all_tests() of a fresh
\* PapersDataValidator.
ValidatorStart ==
    /\ vpc = "idle"
    /\ \E m \in {"pipeline", "standalone"}, errs \in ErrorScenarios :
          StartTests(m, errs)
    /\ UNCHANGED <<storeVars, callVars, normVars, scopeVars, fetchVars, tableExists, runVars>>

InitValidator ==
    /\ table = {}
    /\ nextSerial = 1
    /\ now = 0
    /\ pc = "idle"
    /\ papers = <<>>
    /\ batch_size = 1
    /\ processed_papers = <<>>
    /\ skipped = 0
    /\ i = 1
    /\ j = 0
    /\ total_inserted = 0
    /\ result = NoResult
    /\ failed = 0
    /\ log = <<>>
    /\ callNo = 0
    /\ consumed = 0
    /\ nraw = NoPaper
    /\ nout = [raised |-> FALSE, row |-> NoRow,
               classification |-> NoClassification]
    /\ tableExists \in BOOLEAN
    /\ NoTests
    /\ NoScope
    /\ NoFetch
    /\ NoRun

NextValidator == DirectInsert \/ ValidatorStart \/ RunTests

SpecValidator == InitValidator /\ [][NextValidator]_vars

----------------------------------------------------------------------------
\* PapersDataPipeline.run: query_api, create_table_if_needed, upload_papers,
\* run_data_quality_tests, one step of run per action. A step that raises
\* takes run to its except clause.

\* Works the API hands out over one run.
MaxWorks == 2

\* The works of the API's pages: a good one, one with a negative count, one
\* whose id is nothing but the prefix, one without any title, one without id
\* and one that is no mapping.
ApiWorks ==
    { WithMetrics(
          RawPaper(PyStr(OPENALEX_PREFIX \o W1), TitleA, PyAbsent, PyInt(3), Topic),
          Doi, Percentile(5), PyInt(2), PyInt(1)),
      RawPaper(PyStr(OPENALEX_PREFIX \o W2), TitleB, PyAbsent, PyInt(0 - 1), PyNone),
      RawPaper(PyStr(OPENALEX_PREFIX), TitleA, PyAbsent, PyInt(0), PyAbsent),
      RawPaper(PyStr(OPENALEX_PREFIX \o W3), PyNone, PyNone, PyInt(0), PyAbsent),
      RawPaper(PyAbsent, TitleA, PyAbsent, PyInt(0), PyAbsent),
      NotAMapping }

\* fetch_recent_works: work.get('id') raises on a work that is no mapping.
FetchRaises(works) == \E k \in 1..Len(works) : ~works[k].mapping

\* fetch_recent_works: the works with an id, each id once, in the order of
\* the pages (work_id = work.get('id'); if work_id and work_id not in
\* seen_ids).
RECURSIVE UniqueWorks(_, _, _, _)
UniqueWorks(works, k, seen, kept) ==
    IF k > Len(works) THEN kept
    ELSE LET work_id == PyGet(works[k].id, PyNone)
         IN IF Truthy(work_id) /\ work_id \notin seen
            THEN UniqueWorks(works, k + 1, seen \cup {work_id},
                             Append(kept, works[k]))
            ELSE UniqueWorks(works, k + 1, seen, kept)

FetchRecentWorks(works) == UniqueWorks(works, 1, {}, <<>>)

\* Mutant: the empty result is not looked at.
NoPapersIgnored(ps) == FALSE

\* if not papers
NoPapers(ps) == ps = <<>>

\* Mutant: the tests are run only when the upload wrote something.
WantsTestsAfterWrites(skip, written) == ~skip /\ written > 0

\* if not skip_tests (whatever upload_papers returned)
WantsTests(skip, written) == ~skip

\* Mutant: the except clause hands back the success status.
StatusOnErrorSuccess(code) == 0

\* except Exception: return 1 (whatever the validator had returned)
StatusOnError(code) == 1

\* Mutant: an exception is swallowed and run goes on with its next step.
OnExceptionGoOn(next) == next

\* An exception raised inside run's try block leaves it for the except
\* clause, whatever step would have come next.
OnException(next) == "except"

\* papers = self.query_api(): the search and the pages of the API, or an
\* exception (the network, no field found, a malformed work).
RunQueryApi ==
    /\ rpc = "query_api"
    /\ steps' = Append(steps, "query_api")
    /\ \E raises \in BOOLEAN, n \in 0..MaxWorks :
         \E works \in [1..n -> ApiWorks] :
            IF raises \/ FetchRaises(works)
            THEN /\ errored' = TRUE
                 /\ rpc' = OnException("fetched")
                 /\ fetched' = <<>>
            ELSE /\ errored' = errored
                 /\ rpc' = "fetched"
                 /\ fetched' = FetchRecentWorks(works)
    /\ UNCHANGED <<storeVars, callVars, normVars, scopeVars, fetchVars, tableExists, testVars,
                   skip_tests, run_exit>>

\* if not papers: return 0, and otherwise on to the table.
RunCheckPapers ==
    /\ rpc = "fetched"
    /\ IF NoPapers(fetched)
       THEN rpc' = "returned" /\ run_exit' = 0
       ELSE rpc' = "create_table_if_needed" /\ run_exit' = run_exit
    /\ UNCHANGED <<storeVars, callVars, normVars, scopeVars, fetchVars, tableExists, testVars,
                   skip_tests, fetched, steps, errored>>

\* self.create_table_if_needed(): the table is there afterwards, or the
\* step raises: at the look for the table, or after CREATE TABLE has
\* committed (the extension, an index, a comment).
RunCreateTable ==
    /\ rpc = "create_table_if_needed"
    /\ steps' = Append(steps, "create_table_if_needed")
    /\ \E raises \in BOOLEAN :
          IF raises
          THEN /\ errored' = TRUE
               /\ rpc' = OnException("upload_papers")
               /\ tableExists' \in {tableExists, TRUE}
          ELSE /\ errored' = errored
               /\ rpc' = "upload_papers"
               /\ tableExists' = TRUE
    /\ UNCHANGED <<storeVars, callVars, normVars, scopeVars, fetchVars, testVars, skip_tests,
                   fetched, run_exit>>

\* self.upload_papers(papers): the normalization loop up to the first
\* chunk, or an exception before it (no connection).
RunUpload ==
    /\ rpc = "upload_papers"
    /\ steps' = Append(steps, "upload_papers")
    /\ \E raises \in BOOLEAN :
          IF raises
          THEN /\ errored' = TRUE
               /\ rpc' = OnException("uploading")
               /\ UNCHANGED <<storeVars, callVars, normVars, scopeVars, fetchVars>>
          ELSE /\ errored' = errored
               /\ rpc' = "uploading"
               /\ StartCall(fetched, batch_size)
    /\ UNCHANGED <<tableExists, testVars, skip_tests, fetched, run_exit>>

\* upload_papers is over: an exception that left it goes to the except
\* clause; after its return the tests start, with some set of their queries
\* raising, or are skipped with exit_code = 0.
RunAfterUpload ==
    /\ rpc = "uploading"
    /\ pc \in {"returned", "raised"}
    /\ IF pc = "raised"
       THEN /\ errored' = TRUE
            /\ rpc' = OnException("returned")
            /\ UNCHANGED <<testVars, steps, run_exit>>
       ELSE IF WantsTests(skip_tests, result)
            THEN /\ steps' = Append(steps, "run_data_quality_tests")
                 /\ rpc' = "run_data_quality_tests"
                 /\ \E errs \in ErrorScenarios : StartTests("pipeline", errs)
                 /\ UNCHANGED <<errored, run_exit>>
            ELSE /\ rpc' = "returned"
                 /\ run_exit' = 0
                 /\ UNCHANGED <<testVars, steps, errored>>
    /\ UNCHANGED <<storeVars, callVars, normVars, scopeVars, fetchVars, tableExists, skip_tests,
                   fetched>>

\* run_data_quality_tests is over: return exit_code, or on to the except
\* clause with the exception that left it.
RunAfterTests ==
    /\ rpc = "run_data_quality_tests"
    /\ vpc \in {"returned", "raised"}
    /\ IF vpc = "raised"
       THEN /\ errored' = TRUE
            /\ rpc' = OnException("returned")
            /\ run_exit' = run_exit
       ELSE /\ errored' = errored
            /\ rpc' = "returned"
            /\ run_exit' = exit_code
    /\ UNCHANGED <<storeVars, callVars, normVars, scopeVars, fetchVars, tableExists, testVars,
                   skip_tests, fetched, steps>>

\* except Exception as e: ... return 1
RunExcept ==
    /\ rpc = "except"
    /\ rpc' = "returned"
    /\ run_exit' = StatusOnError(exit_code)
    /\ UNCHANGED <<storeVars, callVars, normVars, scopeVars, fetchVars, tableExists, testVars,
                   skip_tests, fetched, steps, errored>>

\* The row an earlier run left in the table.
OldRow == NewRow(ProcessPaper(MetricRecord(PyInt(1), PyNone, PyNone, PyNone,
                                           PyNone)).row, 1, 1)

\* pipeline = PapersDataPipeline(batch_size = ...); pipeline.run(skip_tests)
\* on a database without the table, with the table empty or with a row of an
\* earlier run.
InitRun ==
    /\ tableExists \in BOOLEAN
    /\ table \in (IF tableExists THEN {{}, {OldRow}} ELSE {{}})
    /\ nextSerial = 2
    /\ now = 1
    /\ pc = "idle"
    /\ papers = <<>>
    /\ batch_size \in 1..MaxBatch
    /\ processed_papers = <<>>
    /\ skipped = 0
    /\ i = 1
    /\ j = 0
    /\ total_inserted = 0
    /\ result = NoResult
    /\ failed = 0
    /\ log = <<>>
    /\ callNo = 0
    /\ consumed = 0
    /\ nraw = NoPaper
    /\ nout = [raised |-> FALSE, row |-> NoRow,
               classification |-> NoClassification]
    /\ NoTests
    /\ NoScope
    /\ NoFetch
    /\ rpc = "query_api"
    /\ skip_tests \in BOOLEAN
    /\ fetched = <<>>
    /\ run_exit = NoResult
    /\ steps = <<>>
    /\ errored = FALSE

NextRun ==
    \/ RunQueryApi
    \/ RunCheckPapers
    \/ RunCreateTable
    \/ RunUpload
    \/ BulkChunk
    \/ RetryRow
    \/ Return
    \/ RunAfterUpload
    \/ RunTests
    \/ RunAfterTests
    \/ RunExcept

SpecRun == InitRun /\ [][NextRun]_vars

----------------------------------------------------------------------------
\* The scoped blocks of db_connection.py: get_cursor and
\* get_connection_context around a block of the caller, and
\* PapersDataValidator.run_test, whose block is inside get_cursor. One
\* client, one block at a time.

\* Blocks entered in one behaviour.
MaxUnits == 3

ScopeKinds == {"run_test", "get_cursor", "get_connection_context"}

\* conn = cls.get_connection(use_pool = use_pool): a connection checked out
\* of the pool, or a new one.
GetConnection(use_pool) ==
    [use_pool |-> use_pool, state |-> "out", given_back |-> 0]

\* Mutant: a connection the pool does not take back is left as it is.
ReturnConnectionNoClose(conn, putconn_raises) ==
    IF conn.use_pool
    THEN IF putconn_raises
         THEN conn
         ELSE [conn EXCEPT !.state = "pool", !.given_back = @ + 1]
    ELSE [conn EXCEPT !.state = "closed", !.given_back = @ + 1]

\* return_connection(conn, from_pool): putconn, and conn.close() when
\* putconn raises or the connection is not of the pool.
ReturnConnection(conn, putconn_raises) ==
    IF conn.use_pool
    THEN IF putconn_raises
         THEN [conn EXCEPT !.state = "closed", !.given_back = @ + 1]
         ELSE [conn EXCEPT !.state = "pool", !.given_back = @ + 1]
    ELSE [conn EXCEPT !.state = "closed", !.given_back = @ + 1]

\* The block of PapersDataValidator.run_test after a query that returned
\* count: passed = (count == 0) if expect_zero else (count > 0), and the
\* result dictionary.
ValidatorTestResult(name, count, expect_zero) ==
    LET passed == IF expect_zero THEN count = 0 ELSE count > 0
    IN [name |-> name, status |-> IF passed THEN "PASS" ELSE "FAIL",
        count |-> PyInt(count), error |-> PyAbsent, passed |-> passed]

\* The result dictionary of its except clause.
ValidatorTestError(name) ==
    [name |-> name, status |-> "ERROR", count |-> PyAbsent,
     error |-> PyOther, passed |-> FALSE]

\* The name of the tests run here.
ScopeTestName == "Missing title"

\* The caller enters the with statement (run_test has counted the call
\* before: self.total_tests += 1); get_connection hands out a connection or
\* raises.
ScopeEnter ==
    /\ upc = "idle"
    /\ Len(conns) < MaxUnits
    /\ run_test_calls < MaxUnits
    /\ \E kind \in ScopeKinds, connects \in BOOLEAN :
         \E use_pool \in (IF kind = "run_test" THEN {TRUE} ELSE BOOLEAN) :
            /\ ukind' = kind
            /\ IF kind = "run_test"
               THEN /\ total_tests' = total_tests + 1
                    /\ run_test_calls' = run_test_calls + 1
               ELSE UNCHANGED <<total_tests, run_test_calls>>
            /\ IF connects
               THEN /\ conns' = Append(conns, GetConnection(use_pool))
                    /\ uexc' = FALSE
                    /\ upc' = IF kind = "get_connection_context"
                              THEN "block" ELSE "cursor"
               ELSE /\ conns' = conns
                    /\ uexc' = TRUE
                    /\ upc' = "leave"
    /\ UNCHANGED <<storeVars, callVars, normVars, tableExists, runVars,
                   fetchVars, vpc, vmode, erring, results, passed_tests,
                   failed_tests, exit_code>>

\* cur = conn.cursor(cursor_factory = cursor_class)
ScopeCursor ==
    /\ upc = "cursor"
    /\ \E raises \in BOOLEAN :
          /\ uexc' = raises
          /\ upc' = IF raises THEN "return_connection" ELSE "block"
    /\ UNCHANGED <<storeVars, callVars, normVars, tableExists, runVars,
                   fetchVars, testVars, ukind, conns, run_test_calls>>

\* The block of the with statement. That of run_test executes the query,
\* and when the query has not raised counts the result, appends it and
\* returns it, which leaves the block without an exception.
ScopeBlock ==
    /\ upc = "block"
    /\ \E raises \in BOOLEAN, count \in 0..1, expect_zero \in BOOLEAN :
          LET test == ValidatorTestResult(ScopeTestName, count, expect_zero)
          IN /\ uexc' = raises
             /\ upc' = IF ukind = "get_connection_context"
                       THEN "return_connection"
                       ELSE IF raises THEN "rollback" ELSE "commit"
             /\ IF ukind = "run_test" /\ ~raises
                THEN /\ passed_tests' = IF test.passed THEN passed_tests + 1
                                        ELSE passed_tests
                     /\ failed_tests' = IF test.passed THEN failed_tests
                                        ELSE failed_tests + 1
                     /\ results' = Append(results, test)
                ELSE UNCHANGED <<passed_tests, failed_tests, results>>
    /\ UNCHANGED <<storeVars, callVars, normVars, tableExists, runVars,
                   fetchVars, vpc, vmode, erring, total_tests, exit_code,
                   ukind, conns, run_test_calls>>

\* conn.commit() after the block
ScopeCommit ==
    /\ upc = "commit"
    /\ \E raises \in BOOLEAN :
          /\ uexc' = raises
          /\ upc' = IF raises THEN "rollback" ELSE "close"
    /\ UNCHANGED <<storeVars, callVars, normVars, tableExists, runVars,
                   fetchVars, testVars, ukind, conns, run_test_calls>>

\* except Exception: conn.rollback(); raise. The exception goes on, or the
\* one rollback raised does.
ScopeRollback ==
    /\ upc = "rollback"
    /\ uexc' = TRUE
    /\ upc' = "close"
    /\ UNCHANGED <<storeVars, callVars, normVars, tableExists, runVars,
                   fetchVars, testVars, ukind, conns, run_test_calls>>

\* finally: cur.close()
ScopeCloseCursor ==
    /\ upc = "close"
    /\ \E raises \in BOOLEAN : uexc' = (uexc \/ raises)
    /\ upc' = "return_connection"
    /\ UNCHANGED <<storeVars, callVars, normVars, tableExists, runVars,
                   fetchVars, testVars, ukind, conns, run_test_calls>>

\* finally: cls.return_connection(conn, from_pool = use_pool)
ScopeReturnConnection ==
    /\ upc = "return_connection"
    /\ \E putconn_raises \in BOOLEAN :
          conns' = [conns EXCEPT
                       ![Len(conns)] = ReturnConnection(@, putconn_raises)]
    /\ upc' = "leave"
    /\ UNCHANGED <<storeVars, callVars, normVars, tableExists, runVars,
                   fetchVars, testVars, ukind, uexc, run_test_calls>>

\* The with statement is left. An exception on its way out is caught by the
\* except clause of run_test, which counts a failure and appends an error
\* result; the other callers let it out.
ScopeLeave ==
    /\ upc = "leave"
    /\ upc' = "idle"
    /\ uexc' = FALSE
    /\ IF ukind = "run_test" /\ uexc
       THEN /\ failed_tests' = failed_tests + 1
            /\ results' = Append(results, ValidatorTestError(ScopeTestName))
       ELSE UNCHANGED <<failed_tests, results>>
    /\ UNCHANGED <<storeVars, callVars, normVars, tableExists, runVars,
                   fetchVars, vpc, vmode, erring, total_tests, passed_tests,
                   exit_code, ukind, conns, run_test_calls>>

NextScope ==
    \/ ScopeEnter
    \/ ScopeCursor
    \/ ScopeBlock
    \/ ScopeCommit
    \/ ScopeRollback
    \/ ScopeCloseCursor
    \/ ScopeReturnConnection
    \/ ScopeLeave

SpecScope == Init /\ [][NextScope]_vars

----------------------------------------------------------------------------
\* fetch_recent_works page by page: the pages of the field query, then those
\* of the subfield query, into one list without repeated ids.

\* The page size asked for. The code asks for per_page = 200 works; the
\* pages of the model are this long.
per_page == 2

\* The number of pages after which the source has no full page left.
MaxPages == 2

\* The works the source hands out: two with ids of their own, a second
\* version of the first and one without an id.
FetchWorks ==
    { RawPaper(PyStr(OPENALEX_PREFIX \o W1), TitleA, PyAbsent, PyInt(3), Topic),
      RawPaper(PyStr(OPENALEX_PREFIX \o W1), TitleB, PyAbsent, PyInt(4), Topic),
      RawPaper(PyStr(OPENALEX_PREFIX \o W2), TitleB, PyAbsent, PyInt(0), PyNone),
      RawPaper(PyAbsent, TitleA, PyAbsent, PyInt(0), PyAbsent) }

\* works_query.get(per_page = per_page, page = page): at most per_page works.
Pages == UNION {[1..n -> FetchWorks] : n \in 0..per_page}

\* The truthy ids of the works of a page.
IdsOf(works) ==
    {PyGet(works[k].id, PyNone) : k \in 1..Len(works)}
        \ {x \in {PyGet(works[k].id, PyNone) : k \in 1..Len(works)} : ~Truthy(x)}

\* Mutant: only an empty page ends the loop.
LastPageWhenEmpty(works) == works = <<>>

\* if not works or len(works) == 0: break ... if len(works) < per_page: break
LastPage(works) == works = <<>> \/ Len(works) < per_page

\* fetch_recent_works(field_id, subfield_id): all_works = [], seen_ids =
\* set(), and on to the first loop whose id is set.
FetchStart ==
    /\ fpc = "idle"
    /\ \E field_id \in BOOLEAN, subfield_id \in BOOLEAN :
          /\ filters' = [field_id |-> field_id, subfield_id |-> subfield_id]
          /\ fpc' = IF field_id THEN "field"
                    ELSE IF subfield_id THEN "subfield" ELSE "returned"
    /\ page' = 1
    /\ all_works' = <<>>
    /\ seen_ids' = {}
    /\ ids_read' = {}
    /\ last_page' = <<>>
    /\ UNCHANGED <<storeVars, callVars, normVars, tableExists, testVars,
                   runVars, scopeVars>>

\* The loop of the filter at hand is over: on to the subfield loop, with
\* page = 1, or return all_works.
NextFilter ==
    /\ fpc' = IF fpc = "field" /\ filters.subfield_id
              THEN "subfield" ELSE "returned"
    /\ page' = 1

\* One turn of while True: the page is asked for; the request raises, or
\* the works of the page with an id not seen yet are added, and the loop
\* ends after an empty or short page and goes on to page + 1 after a full
\* one. The source hands out no full page from page MaxPages on.
FetchPage ==
    /\ fpc \in {"field", "subfield"}
    /\ \E raises \in BOOLEAN, works \in Pages :
          /\ page >= MaxPages => Len(works) < per_page
          /\ IF raises
             THEN /\ fpc' = "raised"
                  /\ UNCHANGED <<page, all_works, seen_ids, ids_read,
                                 last_page>>
             ELSE /\ last_page' = works
                  /\ ids_read' = ids_read \cup IdsOf(works)
                  /\ all_works' = UniqueWorks(works, 1, seen_ids, all_works)
                  /\ seen_ids' = seen_ids \cup IdsOf(works)
                  /\ IF LastPage(works)
                     THEN NextFilter
                     ELSE page' = page + 1 /\ fpc' = fpc
    /\ UNCHANGED <<storeVars, callVars, normVars, tableExists, testVars,
                   runVars, scopeVars, filters>>

NextFetch == FetchStart \/ FetchPage

\* The client runs on as long as it has a step to take.
SpecFetch == Init /\ [][NextFetch]_vars /\ WF_vars(NextFetch)

----------------------------------------------------------------------------
\* What the properties below speak about.

\* The committed writes of one identifier, oldest first.
LogOf(id) == SelectSeq(log, LAMBDA e : e.row.openalex_id = id)

RowsOf(id) == {r \in table : r.openalex_id = id}

LoggedIds == {log[k].row.openalex_id : k \in 1..Len(log)}

\* The writes the current step commits.
NewWrites == SubSeq(log', Len(log) + 1, Len(log'))

\* The number of writes the call in progress (or the last one) committed.
WrittenByCall == Cardinality({k \in 1..Len(log) : log[k].call = callNo})

\* The identifier with its URL prefix stripped from its start.
StripPrefix(s) ==
    IF StartsWith(s, OPENALEX_PREFIX)
    THEN SubSeq(s, Len(OPENALEX_PREFIX) + 1, Len(s))
    ELSE s

\* The bulk write of the chunk at hand is about to fail.
BulkFails ==
    /\ pc = "chunk"
    /\ \E k \in 1..Len(Batch) : ~StoreAccepts(Batch[k])

----------------------------------------------------------------------------
C2_OneRowPerExternalId ==
    \A r1 \in table : \A r2 \in table :
        r1.openalex_id = r2.openalex_id => r1 = r2

\* C2's case: an identifier written several times by a call that also rolled
\* back a chunk and a row.
C2_Witness ==
    \E id \in LoggedIds :
        /\ Len(LogOf(id)) >= 2
        /\ failed >= 1
        /\ Cardinality(RowsOf(id)) = 1

\* What the steps of a chunk that falls back do: the failing bulk step, and
\* each retry step.
C3_Step ==
    /\ BulkFails =>
          /\ table' = table
          /\ total_inserted' = total_inserted
          /\ failed' = failed
          /\ pc' = "retry"
          /\ j' = i
    /\ pc = "retry" =>
          LET row == processed_papers[j]
          IN /\ now' > now
             /\ IF StoreAccepts(row)
                THEN /\ \E r \in table' :
                           /\ r.openalex_id = row.openalex_id
                           /\ r.cols = Columns(row)
                           /\ r.updated_at = now'
                     /\ \A r \in table :
                           r.openalex_id # row.openalex_id => r \in table'
                     /\ total_inserted' = total_inserted + 1
                     /\ failed' = failed
                ELSE /\ table' = table
                     /\ total_inserted' = total_inserted
                     /\ failed' = failed + 1
             /\ IF j < i + Len(Batch) - 1
                THEN pc' = "retry" /\ j' = j + 1 /\ i' = i
                ELSE pc' \in {"chunk", "done"} /\ i' = i + batch_size

\* C3: a failed bulk write of a chunk leaves the table and the count as they
\* were and goes on to retry the chunk from its first row; every retry is a
\* transaction of its own that persists its row and counts it when the store
\* accepts the row, and otherwise changes nothing but the failure report; and
\* after every row but the last of the chunk comes the retry of the next row.
C3_ChunkFallback == [][C3_Step]_vars

\* C3's case: a chunk of three whose middle row the store rejects has been
\* retried to its end, and the rows before and after it are persisted.
C3_Witness ==
    /\ pc = "done"
    /\ batch_size = 3
    /\ Len(processed_papers) = 3
    /\ StoreAccepts(processed_papers[1])
    /\ ~StoreAccepts(processed_papers[2])
    /\ StoreAccepts(processed_papers[3])
    /\ processed_papers[1].openalex_id # processed_papers[3].openalex_id
    /\ failed = 1
    /\ total_inserted = 2
    /\ \A k \in {1, 3} :
          \E r \in table :
             /\ r.openalex_id = processed_papers[k].openalex_id
             /\ r.cols = Columns(processed_papers[k])

C5_CountIsRowsWritten ==
    /\ pc \in {"chunk", "retry", "done"} => total_inserted = WrittenByCall
    /\ pc = "done" => total_inserted + failed = Len(processed_papers)
    /\ pc = "returned" => result = WrittenByCall

\* C5's case: a call has returned after a chunk that fell back, with one row
\* written on its own and one failed, and a chunk committed in bulk.
C5_Witness ==
    /\ pc = "returned"
    /\ result = 2
    /\ failed = 1
    /\ \E k \in 1..Len(log) : log[k].call = callNo /\ log[k].kind = "single"
    /\ \E k \in 1..Len(log) : log[k].call = callNo /\ log[k].kind = "bulk"

\* What a committing step does to the rows that were persisted before it.
C6_Step ==
    \A r \in table :
        LET w == SelectSeq(NewWrites, LAMBDA e : e.row.openalex_id = r.openalex_id)
        IN IF w = <<>>
           THEN r \in table'
           ELSE \E r2 \in table' :
                   /\ r2.openalex_id = r.openalex_id
                   /\ r2.cols.title = w[Len(w)].row.title
                   /\ r2.cols.cited_by_count = w[Len(w)].row.cited_by_count
                   /\ r2.cols.primary_topic_name = w[Len(w)].row.primary_topic_name
                   /\ r2.created_at = r.created_at
                   /\ r2.id = r.id
                   /\ r2.updated_at > r2.created_at

C7_IdStrippedOfPrefix ==
    (/\ pc = "normalized"
     /\ nraw.mapping
     /\ nraw.id.t = "str"
     /\ nraw.id.v # <<>>
     /\ ~nout.raised)
        => nout.row.openalex_id = StripPrefix(nraw.id.v)

\* Whether a raw record's id is missing, null, empty or nothing but the
\* prefix.
IdMissingOrEmpty(paper) ==
    /\ paper.mapping
    /\ \/ paper.id.t \in {"absent", "none"}
       \/ paper.id.t = "str" /\ StripPrefix(paper.id.v) = <<>>

\* C8 as stated: every raw record of the input whose id is missing or empty
\* (also after the prefix is stripped) has added one to the skip count and is
\* not among the rows handed to the store, however the normalization loop
\* ended; and no row with an empty openalex_id is ever written.
C8_EmptyIdRejected ==
    /\ pc \in {"chunk", "retry", "done", "raised"} =>
          /\ skipped >= Cardinality({k \in 1..Len(papers) :
                                        IdMissingOrEmpty(papers[k])})
          /\ \A k \in 1..Len(processed_papers) :
                processed_papers[k].openalex_id # <<>>
    /\ \A r \in table : r.openalex_id # <<>>
    /\ \A k \in 1..Len(log) : log[k].row.openalex_id # <<>>

\* What does hold of the records without id: when the loop runs to its end
\* each of them is counted in skipped and none is handed to the store, and
\* no row with an empty openalex_id is ever written.
EmptyIdRejectedWhenLoopEnds ==
    /\ pc \in {"chunk", "retry", "done"} =>
          /\ skipped >= Cardinality({k \in 1..Len(papers) :
                                        IdMissingOrEmpty(papers[k])})
          /\ Len(processed_papers) + skipped = Len(papers)
          /\ \A k \in 1..Len(processed_papers) :
                processed_papers[k].openalex_id # <<>>
    /\ \A r \in table : r.openalex_id # <<>>
    /\ \A k \in 1..Len(log) : log[k].row.openalex_id # <<>>

\* C9 as stated: no exception raised while normalizing a record leaves the
\* normalization loop.
C9_NoExceptionLeavesLoop == pc # "raised"

\* C10 as stated: every row stored, and every row the normalization has
\* handed to an upsert that has run, has a title that is a non-empty string.
C10_TitleNonEmpty ==
    /\ \A r \in table :
          /\ r.cols.title.t = "str"
          /\ r.cols.title.v # <<>>
    /\ pc = "done" =>
          \A k \in 1..Len(processed_papers) :
             /\ processed_papers[k].title.t = "str"
             /\ processed_papers[k].title.v # <<>>

\* The count keys of a raw record, each with the column made of it.
CountFields(raw, row) ==
    << <<raw.cited_by_count, row.cited_by_count>>,
       <<raw.countries_distinct_count, row.countries_count>>,
       <<raw.institutions_distinct_count, row.institutions_count>> >>

\* C11 as stated: for every raw record process_paper returns a tuple for,
\* each of cited_by_count, countries_count and institutions_count is 0 when
\* its source key is absent or null, and none of them is negative.
C11_CountsZeroNeverNegative ==
    (pc = "normalized" /\ ~nout.raised) =>
        \A k \in 1..Len(CountFields(nraw, nout.row)) :
            LET f == CountFields(nraw, nout.row)[k]
            IN /\ f[1].t \in {"absent", "none"} => f[2] = PyInt(0)
               /\ ~(f[2].t = "int" /\ f[2].v < 0)

\* What does hold of the counts: each is 0 when its source key is absent,
\* null or 0, and otherwise the source value as it is.
CountsDefaultToZero ==
    (pc = "normalized" /\ ~nout.raised) =>
        \A k \in 1..Len(CountFields(nraw, nout.row)) :
            LET f == CountFields(nraw, nout.row)[k]
            IN IF f[1].t \in {"absent", "none"} \/ f[1] = PyInt(0)
               THEN f[2] = PyInt(0)
               ELSE f[2] = f[1]

\* A column value that is null or a number within [0.0, 1.0].
NullOrInUnitRange(x) ==
    \/ x.t = "none"
    \/ x.t = "float" /\ 0 <= x.v /\ x.v <= ScoreOne

\* C12 as stated: in every table state the normalize and upsert steps
\* reach, every row has a citation_percentile that is null or within
\* [0.0, 1.0].
C12_PercentileNullOrInRange ==
    \A r \in table : NullOrInUnitRange(r.cols.citation_percentile)

\* The results collected for one check.
ResultsOf(name) == {results[k] : k \in 1..Len(results)} \cap
                       {t \in {results[k] : k \in 1..Len(results)} :
                           t.name = name}

\* The rows whose citation_percentile is not null and outside [0.0, 1.0].
PercentileViolations ==
    {r \in table : ~NullOrInUnitRange(r.cols.citation_percentile)}

\* C13: whenever the query of the citation_percentile check has run, its
\* result carries as count the number of rows whose citation_percentile is
\* not null and outside [0.0, 1.0] (rows with a null value are not among
\* them), the check passes exactly when that number is 0 and has status FAIL
\* otherwise, and a validator that returns after a failed check returns 1.
C13_PercentileCheckCountsViolations ==
    \A t \in ResultsOf("Invalid citation_percentile range") :
        t.status # "ERROR" =>
            /\ t.count = PyInt(Cardinality(PercentileViolations))
            /\ t.passed <=> (PercentileViolations = {})
            /\ t.status = IF PercentileViolations = {} THEN "PASS" ELSE "FAIL"
            /\ (vpc = "returned" /\ PercentileViolations # {}) => exit_code = 1

\* C13's case: the check has run on a table that holds a directly inserted
\* row with an out-of-range value and a row with a null value, and has
\* failed counting the one row.
C13_Witness ==
    /\ vpc = "returned"
    /\ \E r \in table : r.cols.citation_percentile = PyFloat(ScoreOne + 5)
    /\ \E r \in table : r.cols.citation_percentile = PyNone
    /\ \E t \in ResultsOf("Invalid citation_percentile range") :
          t.status = "FAIL" /\ t.count = PyInt(1)
    /\ exit_code = 1

\* The table holds two rows with the same openalex_id and no other
\* duplicated identifier.
TwoRowsShareOneId ==
    \E r1 \in table : \E r2 \in table :
        /\ r1 # r2
        /\ r1.openalex_id = r2.openalex_id
        /\ \A r3 \in table : \A r4 \in table :
              (r3 # r4 /\ r3.openalex_id = r4.openalex_id)
                  => {r3, r4} = {r1, r2}

\* C14: on a table with two rows of one openalex_id and no other duplicated
\* identifier, the uniqueness check, when its query has run, reports the
\* count 1 (one duplicated identifier, not two rows) and fails, and the
\* validator returns 1.
C14_DuplicateIdsCountedByGroup ==
    TwoRowsShareOneId =>
        /\ \A t \in ResultsOf("Duplicate openalex_id") :
              t.status # "ERROR" =>
                  /\ t.count = PyInt(1)
                  /\ ~t.passed
                  /\ t.status = "FAIL"
        /\ vpc = "returned" => exit_code = 1

\* C14's case: the validator has returned on a table of two rows with the
\* same openalex_id, every other check having passed.
C14_Witness ==
    /\ vpc = "returned"
    /\ TwoRowsShareOneId
    /\ Cardinality(table) = 2
    /\ \E t \in ResultsOf("Duplicate openalex_id") : t.count = PyInt(1)
    /\ failed_tests = 1
    /\ exit_code = 1

\* Every check but the DOI check has run and passed.
AllHardChecksPassed ==
    \A name \in HardChecks : \E t \in ResultsOf(name) : t.passed

\* C15 as stated: whenever a validator, the pipeline's or the standalone
\* one, returns after every other check has passed and the query of the DOI
\* check has run, it returns 0, whatever number of duplicated DOIs the
\* query found.
C15_DoiCheckNeverFails ==
    (/\ vpc = "returned"
     /\ "Duplicate DOI" \notin erring
     /\ AllHardChecksPassed)
        => exit_code = 0

\* What does hold of the DOI check: run from the pipeline it never decides
\* the outcome, not even when its query raises.
DoiCheckNeverFailsInPipeline ==
    (vpc = "returned" /\ vmode = "pipeline" /\ AllHardChecksPassed)
        => exit_code = 0

\* C16 as stated: when no query raises, a validator returns 0 if every check
\* but the DOI check passed, and 1 otherwise.
C16_ExitStatusFromHardChecks ==
    (vpc = "returned" /\ erring = {})
        => exit_code = IF AllHardChecksPassed THEN 0 ELSE 1

\* What does hold of the exit status: the pipeline's validator returns 0
\* exactly when every check but the DOI check passed.
ExitStatusFromHardChecksInPipeline ==
    (vpc = "returned" /\ vmode = "pipeline")
        => exit_code = IF AllHardChecksPassed THEN 0 ELSE 1

\* C17 as stated: a check whose query raised has a result with status
\* ERROR, an error message and no count, and a validator that returns after
\* the query of any check raised returns 1.
C17_ErrorCountsTowardFailure ==
    \A k \in 1..Len(results) :
        results[k].name \in erring =>
            /\ results[k].status = "ERROR"
            /\ results[k].error # PyAbsent
            /\ results[k].count = PyAbsent
            /\ ~results[k].passed
            /\ vpc = "returned" => exit_code = 1

\* What does hold of a query that raises: the result is in the error state,
\* and for every check but the pipeline's DOI check the validator returns 1.
ErrorOfHardCheckCountsTowardFailure ==
    \A k \in 1..Len(results) :
        results[k].name \in erring =>
            /\ results[k].status = "ERROR"
            /\ results[k].error # PyAbsent
            /\ results[k].count = PyAbsent
            /\ ~results[k].passed
            /\ (/\ vpc = "returned"
                /\ ~(vmode = "pipeline" /\ results[k].name = "Duplicate DOI"))
                   => exit_code = 1

\* What run does once query_api has returned no papers.
C18_Step ==
    (rpc = "fetched" /\ fetched = <<>>) =>
        /\ rpc' = "returned"
        /\ run_exit' = 0
        /\ steps' = <<"query_api">>
        /\ tableExists' = tableExists
        /\ UNCHANGED <<table, nextSerial, now, log>>
        /\ pc' = "idle"
        /\ vpc' = "idle"
        /\ results' = <<>>

\* C18: when query_api has returned without raising and with zero records,
\* the next step of run is its return, with exit status 0: the table is
\* neither created nor written, no upload and no data quality test has been
\* started, and query_api is the only step run has called.
C18_ZeroRecordsShortCircuit == [][C18_Step]_vars

\* C18's case: run has returned 0 after a fetch of zero records, on a
\* database whose table holds a row of an earlier run.
C18_Witness ==
    /\ rpc = "returned"
    /\ ~errored
    /\ fetched = <<>>
    /\ run_exit = 0
    /\ steps = <<"query_api">>
    /\ table = {OldRow}
    /\ vpc = "idle"

\* What run does once upload_papers has returned.
C19_Step ==
    (rpc = "uploading" /\ pc = "returned" /\ ~skip_tests) =>
        /\ rpc' = "run_data_quality_tests"
        /\ steps' = Append(steps, "run_data_quality_tests")
        /\ vpc' # "idle"
        /\ UNCHANGED <<table, result, failed>>

\* C19: in a run without skip_tests the step after the return of
\* upload_papers starts the data quality tests, whatever upload_papers
\* returned, skipped or failed to write; and whenever upload_papers has
\* returned in such a run and run has gone on, the tests are the step it
\* called after the upload.
C19_ValidatorRunsAfterUpsert ==
    /\ [][C19_Step]_vars
    /\ []((/\ pc = "returned"
           /\ ~skip_tests
           /\ rpc \in {"run_data_quality_tests", "except", "returned"})
              => steps = <<"query_api", "create_table_if_needed",
                           "upload_papers", "run_data_quality_tests">>)

\* C19's case: the tests have run to their end after an upload that wrote
\* nothing: of two fetched papers one was skipped in normalization and the
\* other failed in its chunk and on its own.
C19_Witness ==
    /\ rpc = "returned"
    /\ ~skip_tests
    /\ Len(fetched) = 2
    /\ pc = "returned"
    /\ result = 0
    /\ failed = 1
    /\ vpc = "returned"
    /\ Len(results) = Len(CheckNames)
    /\ run_exit = exit_code

\* C20: run returns 1 whenever an exception left one of its steps;
\* otherwise 0 when no record was fetched or skip_tests is set; otherwise
\* what the data quality tests returned; it returns nothing but 0 and 1.
C20_ExitStatus ==
    rpc = "returned" =>
        /\ run_exit \in {0, 1}
        /\ run_exit = IF errored THEN 1
                      ELSE IF fetched = <<>> \/ skip_tests THEN 0
                      ELSE exit_code

\* C20's case: run has returned 1 after an exception left the data quality
\* tests, all papers having been written.
C20_Witness ==
    /\ rpc = "returned"
    /\ errored
    /\ vpc = "raised"
    /\ result = Len(fetched)
    /\ result > 0
    /\ run_exit = 1

\* The positions at which the block holds its connection.
HoldingConnection ==
    {"cursor", "block", "commit", "rollback", "close", "return_connection"}

\* C21: every connection acquired through get_cursor or
\* get_connection_context is given back (returned to the pool or closed)
\* exactly once on every exit path of the scoped block, also when the
\* block, the cursor creation, the commit or the rollback raises: a
\* connection is out only while its block is running, it is never given
\* back twice, and once the block is left it has been given back once and
\* no connection remains checked out.
C21_ConnectionGivenBackOnce ==
    /\ \A k \in 1..Len(conns) :
          /\ conns[k].given_back <= 1
          /\ (conns[k].state = "out") = (conns[k].given_back = 0)
          /\ conns[k].state = "out" =>
                (k = Len(conns) /\ upc \in HoldingConnection)
          /\ conns[k].state = "pool" => conns[k].use_pool
    /\ upc \in HoldingConnection =>
          (conns # <<>> /\ conns[Len(conns)].state = "out")

\* A second block has been left by an exception, and its pooled connection
\* was closed because the pool did not take it back.
C21_Witness ==
    /\ upc = "leave"
    /\ uexc
    /\ Len(conns) >= 2
    /\ conns[Len(conns)].use_pool
    /\ conns[Len(conns)].state = "closed"
    /\ conns[1].state = "pool"

\* The chunk at hand is the rows i .. i + batch_size - 1 of the input, cut
\* at its end, and i is one past a whole number of chunks; every row before
\* the chunk, and before the row being retried, has been written or reported
\* as failed, and no row after it has.
ChunksPartitionInput ==
    /\ pc \in {"chunk", "retry"} =>
          /\ i >= 1
          /\ i <= Len(processed_papers)
          /\ (i - 1) % batch_size = 0
          /\ \A k \in 1..Len(Batch) : Batch[k] = processed_papers[i + k - 1]
          /\ \/ Len(Batch) = batch_size
             \/ /\ Len(Batch) >= 1
                /\ Len(Batch) < batch_size
                /\ i + Len(Batch) - 1 = Len(processed_papers)
    /\ pc = "chunk" => total_inserted + failed = i - 1
    /\ pc = "retry" =>
          /\ j >= i
          /\ j <= i + Len(Batch) - 1
          /\ total_inserted + failed = j - 1
    /\ pc = "done" =>
          /\ i > Len(processed_papers)
          /\ total_inserted + failed = Len(processed_papers)

\* The loop moves on by batch_size, after the bulk write of the whole chunk
\* has committed or after the last row of the chunk has been retried.
C22_Step ==
    (pc \in {"chunk", "retry"} /\ i' # i) =>
        /\ i' = i + batch_size
        /\ pc' \in {"chunk", "done"}
        /\ pc = "chunk" =>
              /\ total_inserted' = total_inserted + Len(Batch)
              /\ Len(log') = Len(log) + Len(Batch)
        /\ pc = "retry" => j = i + Len(Batch) - 1

\* C22: for a positive batch_size the upserter partitions the normalized
\* rows into consecutive chunks in input order, each of exactly batch_size
\* rows except possibly the last, every row in exactly one chunk; the chunks
\* are processed one after another, chunk k+1 starting only after chunk k
\* has been committed or fully retried row by row.
C22_ChunksInOrder ==
    /\ []ChunksPartitionInput
    /\ [][C22_Step]_vars

\* A short last chunk is about to be written after a first chunk of two
\* rows that was retried row by row, one row failing.
C22_Witness ==
    /\ pc = "chunk"
    /\ batch_size = 2
    /\ Len(processed_papers) = 3
    /\ i = 3
    /\ total_inserted = 1
    /\ failed = 1

\* The rows of the call's input that the store accepts: the rows the call
\* writes successfully.
WrittenRows ==
    {k \in 1..Len(processed_papers) : StoreAccepts(processed_papers[k])}

\* The last row of the input with the identifier id that is written.
LastWritten(id) ==
    CHOOSE k \in WrittenRows :
        /\ processed_papers[k].openalex_id = id
        /\ \A m \in WrittenRows :
              processed_papers[m].openalex_id = id => m <= k

C28_Step ==
    /\ (pc \in {"chunk", "retry"} /\ total_inserted' = total_inserted) =>
          table' = table
    /\ (vpc # "idle" \/ vpc' # "idle") =>
          /\ table' = table
          /\ log' = log

\* C28: a rollback caused by a failing chunk or a failing individual row
\* never removes or changes rows written by chunks or rows that were
\* committed earlier in the same upsert call, and a failing validation
\* leaves the table exactly as the upsert step left it: no step of the
\* validator writes.
C28_RollbackAndValidatorKeepTable == [][C28_Step]_vars

\* A validation has failed on a table whose row was committed by the retry
\* of one row, before the retry of the next row of the chunk failed.
C28_Witness ==
    /\ rpc = "run_data_quality_tests"
    /\ vpc = "returned"
    /\ exit_code = 1
    /\ pc = "returned"
    /\ result = 1
    /\ failed = 1
    /\ Len(log) = 1
    /\ log[1].kind = "single"
    /\ \E r \in table : r.openalex_id = log[1].row.openalex_id

\* The table's rows without their surrogate id and timestamps.
Contents(tbl) == {[openalex_id |-> r.openalex_id, cols |-> r.cols] : r \in tbl}

\* The rows upserted one by one in input order, each in a transaction of
\* its own, from the table and count of acc.
RECURSIVE UpsertIndividually(_, _, _)
UpsertIndividually(rows, k, acc) ==
    IF k > Len(rows) THEN acc
    ELSE LET st == Execute(rows[k], 0, Begin(acc.table, 0))
         IN UpsertIndividually(rows, k + 1,
                IF st.ok
                THEN [table |-> Commit(acc.table, st.view),
                      count |-> acc.count + 1]
                ELSE [table |-> Rollback(acc.table, st.view),
                      count |-> acc.count])

\* The rows the earlier calls committed, in order.
WritesOfEarlierCalls ==
    LET w == SelectSeq(log, LAMBDA e : e.call < callNo)
    IN [k \in 1..Len(w) |-> w[k].row]

\* C29: for every input and every positive batch_size the table contents
\* after the upsert (the external ids and each row's non-timestamp field
\* values) and the returned count are those of upserting every normalized
\* row individually in input order in its own transaction, so the result
\* does not depend on batch_size or on where a failing row falls within a
\* chunk.
C29_SameAsRowByRow ==
    pc = "done" =>
        LET before == UpsertIndividually(WritesOfEarlierCalls, 1,
                                         [table |-> {}, count |-> 0])
            ref == UpsertIndividually(processed_papers, 1,
                                      [table |-> before.table, count |-> 0])
        IN /\ Contents(table) = Contents(ref.table)
           /\ total_inserted = ref.count

\* A chunk of three rows whose middle row the store rejects has been
\* written: the two other rows are there.
C29_Witness ==
    /\ pc = "done"
    /\ batch_size = 3
    /\ Len(processed_papers) = 3
    /\ StoreAccepts(processed_papers[1])
    /\ ~StoreAccepts(processed_papers[2])
    /\ StoreAccepts(processed_papers[3])
    /\ processed_papers[1].openalex_id # processed_papers[3].openalex_id
    /\ total_inserted = 2
    /\ failed = 1
    /\ Cardinality(table) = 2

\* The steps of run, in the order of its code.
RunOrder ==
    <<"query_api", "create_table_if_needed", "upload_papers",
      "run_data_quality_tests">>

\* The steps called so far are the first ones of the order; the upsert has
\* not started unless the fetch and the table setup have returned, the
\* validator has not started unless the upsert has returned, and a run that
\* has returned after an exception has returned 1.
RunStepsInOrder ==
    /\ Len(steps) <= Len(RunOrder)
    /\ steps = SubSeq(RunOrder, 1, Len(steps))
    /\ pc # "idle" =>
          /\ Len(steps) >= 3
          /\ rpc \in {"uploading", "run_data_quality_tests", "except",
                      "returned"}
    /\ vpc # "idle" =>
          /\ Len(steps) = 4
          /\ pc = "returned"
    /\ (errored /\ rpc = "returned") => run_exit = 1

\* After an exception the only step is the return of 1 from the except
\* clause, and after the return there is no step.
C24_Step ==
    /\ errored =>
          /\ rpc = "except"
          /\ rpc' = "returned"
          /\ run_exit' = 1
          /\ errored'
          /\ UNCHANGED <<steps, table, log, tableExists, pc, vpc, results,
                         total_inserted, result>>
    /\ rpc # "returned"

\* C24: the orchestrator's steps occur only in the order fetch, then table
\* setup and normalize/upsert, then validate, then done: the upsert never
\* starts before the fetch has returned, the validator never starts before
\* the upsert has returned, and once an unrecoverable error has occurred no
\* further step of the run is executed and the exit status stays 1.
C24_StepsInOrder ==
    /\ []RunStepsInOrder
    /\ [][C24_Step]_vars

\* A run has returned 1 after all four steps, the last of which raised
\* after the upsert had written a row.
C24_Witness ==
    /\ rpc = "returned"
    /\ errored
    /\ steps = RunOrder
    /\ vpc = "raised"
    /\ pc = "returned"
    /\ result >= 1
    /\ run_exit = 1

\* The number of checks that have been evaluated when the validator stands
\* at a position past the look for the table.
ChecksDoneAt(position) ==
    CASE position = "missing_required_fields" -> 0
      [] position = "citation_count_validation" -> Len(RequiredFieldChecks)
      [] position = "score_range_validation" ->
             Len(RequiredFieldChecks) + Len(CitationCountChecks)
      [] position = "duplicate_detection" ->
             Len(RequiredFieldChecks) + Len(CitationCountChecks)
                 + Len(ScoreRangeChecks)
      [] OTHER -> Len(CheckNames)

\* C25: all ten validator checks are evaluated on every validator run in
\* which the table exists (and was found), whatever the outcome (pass, fail
\* or error) of the checks before them: at every position the checks
\* evaluated so far are the first ones of the list, one result each, and a
\* run that has come to its summary has evaluated all ten.
C25_AllChecksEvaluated ==
    (vpc # "idle" /\ tableExists /\ "table_exists" \notin erring) =>
        /\ Len(CheckNames) = 10
        /\ Len(results) = ChecksDoneAt(vpc)
        /\ \A k \in 1..Len(results) : results[k].name = CheckNames[k]
        /\ total_tests = Len(results)

\* A run has returned with all ten results although the query of its first
\* check raised and its second check failed.
C25_Witness ==
    /\ vpc = "returned"
    /\ Len(results) = 10
    /\ results[1].status = "ERROR"
    /\ results[2].status = "FAIL"
    /\ results[10].status = "PASS"

\* What the claim expects under one key of the primary topic: the display
\* name of the sub-object, null when the sub-object or its name is absent.
NameOfSubObject(sub) ==
    IF sub.t = "dict"
    THEN IF sub.v.display_name = PyAbsent THEN PyNone ELSE sub.v.display_name
    ELSE PyNone

\* C26: for every raw record process_paper accepts: when primary_topic is
\* absent or null, primary_topic_name, primary_topic_score, subfield_name,
\* field_name and domain_name are all null; when primary_topic is present,
\* each of subfield_name, field_name and domain_name is the display name of
\* its own sub-object, or null when that sub-object is absent, whatever the
\* other two sub-objects are.
C26_TopicNamesIndependent ==
    (pc = "normalized" /\ nraw.mapping /\ ~nout.raised) =>
        LET primary_topic == nraw.primary_topic
        IN /\ primary_topic \in {PyAbsent, PyNone, EmptyDict} =>
                 /\ nout.row.primary_topic_name = PyNone
                 /\ nout.row.primary_topic_score = PyNone
                 /\ nout.classification = NoClassification
           /\ primary_topic.t = "dict" =>
                 /\ nout.classification.subfield_name =
                        NameOfSubObject(primary_topic.v.subfield)
                 /\ nout.classification.field_name =
                        NameOfSubObject(primary_topic.v.field)
                 /\ nout.classification.domain_name =
                        NameOfSubObject(primary_topic.v.domain)

\* A record whose primary topic has a domain but neither subfield nor field
\* has been flattened: the domain name is there, the other two are null.
C26_Witness ==
    /\ pc = "normalized"
    /\ ~nout.raised
    /\ nraw.primary_topic.t = "dict"
    /\ nraw.primary_topic.v.subfield = PyAbsent
    /\ nraw.primary_topic.v.field = PyNone
    /\ nout.classification =
          [subfield_name |-> PyNone, field_name |-> PyNone,
           domain_name |-> PyStr(<<"d">>)]

\* all_works holds every id read so far once, and nothing else.
FetchedEachOnce ==
    /\ \A k \in 1..Len(all_works) : Truthy(PyGet(all_works[k].id, PyNone))
    /\ {PyGet(all_works[k].id, PyNone) : k \in 1..Len(all_works)} = ids_read
    /\ Cardinality(ids_read) = Len(all_works)
    /\ seen_ids = ids_read

\* A turn of the loop asks for the next page of the same filter exactly
\* when the page it read was full, and leaves the filter otherwise.
C27_Step ==
    (fpc \in {"field", "subfield"} /\ fpc' # "raised") =>
        IF Len(last_page') = per_page
        THEN fpc' = fpc /\ page' = page + 1
        ELSE /\ fpc' # fpc
             /\ fpc' \in {"subfield", "returned"}
             /\ fpc' = "subfield" => (fpc = "field" /\ page' = 1)

\* C27: the paginated fetch of one filter stops requesting pages as soon as
\* a page is empty or holds fewer than the requested page size, and
\* requests page n+1 only after a full page n; given a source that
\* eventually returns a short or empty page the fetch terminates; and the
\* list holds every distinct identified record of the pages read, each
\* once, also across the field and subfield queries.
C27_FetchPagesAndTerminates ==
    /\ [][C27_Step]_vars
    /\ []FetchedEachOnce
    /\ [](page <= MaxPages)
    /\ (fpc \in {"field", "subfield"}) ~> (fpc \in {"returned", "raised"})

\* A fetch with both filters set has returned two works; the last page it
\* read was a short one whose only identified work was in the list already.
C27_Witness ==
    /\ fpc = "returned"
    /\ filters.field_id
    /\ filters.subfield_id
    /\ Len(all_works) = 2
    /\ Len(last_page) = 1
    /\ all_works[1].title = TitleB
    /\ IdsOf(last_page) = {PyGet(all_works[1].id, PyNone)}

\* C30 as stated: after any sequence of PapersDataValidator.run_test calls,
\* also calls whose query raises and calls where the commit on leaving the
\* cursor scope raises after the result was tallied,
\* passed_tests + failed_tests equals total_tests and the results list holds
\* exactly one entry per call.
C30_TallyMatchesCalls ==
    upc = "idle" =>
        /\ passed_tests + failed_tests = total_tests
        /\ Len(results) = run_test_calls
        /\ total_tests = run_test_calls

============================================================================
